---- MODULE Spec2Model ----
(***************************************************************************)
(* Model of the accessibility-checker audit pipeline.                      *)
(*                                                                         *)
(*   Spec       the orchestrator src/lib/analyzeLocal.ts: audit cache,     *)
(*              p-queue admission, the two engines joined by Promise.all,  *)
(*              for several concurrent callers auditing clean pages.       *)
(*   AuditSpec  the same actions for few callers and pages with            *)
(*              violations: result assembly, scoring, recommendations      *)
(*              (src/lib/openai.ts).                                       *)
(*   RouteSpec  the result builders of the analyze route: the mock         *)
(*              analyzer and mapBResultToAccessibilityResults.             *)
(*   RecoSpec   the recommendation phase of successive audits: the request *)
(*              generateRecommendations sends, the parsing of the answer   *)
(*              and the attach loop, one iteration per step.               *)
(*   NormSpec   normalizeRecommendation applied to bounded JSON values.    *)
(*   ScoreSpec  scoreFromCounts and the grade for bounded severity counts. *)
(*   QueueSpec  the orchestrator's actions for enough callers to have     *)
(*              several jobs waiting for a slot.                           *)
(*   PostSpec   POST of the analyze route in its two variants: validation, *)
(*              the Backend-B call and the fallback to the mock analyzer.  *)
(*   WorkerSpec the batch worker audit_worker.mjs, one awaited operation   *)
(*              per step, in its two variants.                             *)
(*   FairPollSpec the polling loops on a Backend-B job, where fetches are  *)
(*              answered, timers fire and time passes.                     *)
(*   BrowserSpec getBrowser called by concurrent jobs.                      *)
(*   ClientSpec analyzeWebsite reading the answer of the analyze route.    *)
(*   EngineSpec what runAxe and runLighthouse open and close.              *)
(*   GradeSpec  the three definitions of gradeFromScore on bounded scores.  *)
(*                                                                         *)
(* Optional values (T | null | undefined) are sequences: <<>> is the       *)
(* absent value, <<x>> is the present value x.                             *)
(***************************************************************************)
EXTENDS Integers, Sequences, FiniteSets, TLC

(***************************************************************************)
(* Bounds of the model.                                                    *)
(***************************************************************************)
\* largest score graded in GradeSpec
MaxScore == 100
\* number of analyzeLocal calls issued in one behaviour
MaxCalls == 3
\* number of analyzeLocal calls in one behaviour of QueueSpec
MaxQueueCalls == 4
\* number of polls one request of PostSpec sends before the timeout
MaxPolls == 2
\* the configured polling timeout (ANALYZE_TIMEOUT_MS), in clock steps
PollTimeout == 2
\* the configured pause between two polls (ANALYZE_POLL_MS), in clock steps
PollMs == 1
\* number of concurrent callers of getBrowser in BrowserSpec
MaxBrowserCallers == 3
\* number of clock steps in one behaviour
MaxTicks == 1
\* number of analyzeLocal calls in one behaviour of AuditSpec
MaxAuditCalls == 1
\* length of the violation list of a Backend-B payload
MaxBViolations == 2
\* number of audits whose recommendation phase runs in one behaviour of RecoSpec
MaxAudits == 2
\* largest value of a severity counter in ScoreSpec
MaxCount == 6

(***************************************************************************)
(* Program constants.                                                      *)
(***************************************************************************)
\* src/lib/analyzeLocal.ts:34
CACHE_TTL_MS == 10 * 60 * 1000
\* src/lib/analyzeLocal.ts:37   new PQueue({ concurrency: 2 })
Concurrency == 2

\* the clock advances by one cache lifetime at a time
TickMs == CACHE_TTL_MS
MaxClock == MaxTicks * TickMs

Calls == 1..MaxCalls
AuditCalls == 1..MaxAuditCalls

\* urls as UTF-8 byte sequences: "a" and "a/"
Urls == { <<97>>, <<97, 47>> }

Impacts == {"critical", "serious", "moderate", "minor"}

\* keys of the static table `recommendations`
StaticIds == {"html-has-lang", "document-title", "aria-roles",
              "aria-allowed-attr", "label", "form-field-multiple-labels"}

(***************************************************************************)
(* JSON values, as JSON.parse returns them.  An object is the sequence of  *)
(* its properties in insertion order.                                      *)
(***************************************************************************)
Undefined == [t |-> "undefined"]
Null == [t |-> "null"]
Str(s) == [t |-> "string", s |-> s]
Num(n) == [t |-> "number", n |-> n]
Bool(b) == [t |-> "boolean", b |-> b]
Arr(items) == [t |-> "array", items |-> items]
Obj(props) == [t |-> "object", props |-> props]

\* the outcome of an expression that throws a TypeError
Thrown == [t |-> "TypeError"]

Nullish(v) == v.t \in {"undefined", "null"}

\* !!v
Truthy(v) ==
  CASE v.t \in {"undefined", "null"} -> FALSE
    [] v.t = "string" -> v.s # ""
    [] v.t = "number" -> v.n # 0
    [] v.t = "boolean" -> v.b
    [] OTHER -> TRUE

\* v[name] of a value that is neither null nor undefined, for the property
\* names the program reads (none of them exists on a primitive or an array)
Prop(v, name) ==
  IF v.t = "object" /\ \E i \in DOMAIN v.props : v.props[i].k = name
  THEN v.props[CHOOSE i \in DOMAIN v.props : v.props[i].k = name].v
  ELSE Undefined

\* v.name: a TypeError on null and undefined
Get(v, name) == IF Nullish(v) THEN Thrown ELSE Prop(v, name)

\* v?.name
OptGet(v, name) == IF Nullish(v) THEN Undefined ELSE Prop(v, name)

\* a character of a string: a string of length one
Char == Str("c")

\* Object.values(v) of a value that is neither null nor undefined
ObjectValues(v) ==
  CASE v.t = "object" -> Arr([i \in DOMAIN v.props |-> v.props[i].v])
    [] v.t = "array" -> v
    [] v.t = "string" -> Arr([i \in 1..Len(v.s) |-> Char])
    [] OTHER -> Arr(<<>>)

(***************************************************************************)
(* Environment: what the engines and the completion service can answer.    *)
(***************************************************************************)
\* a clean page: no violation, Lighthouse score 1.0, completion {"items": []}
CleanAxe == <<>>
CleanLh == << 1000 >>
CleanGen == Obj(<< [k |-> "items", v |-> Arr(<<>>)] >>)

\* runAxe's resolved value: raw axe violations; impact <<>> is axe's null
AxeOutputs ==
  { <<>>,
    << [id |-> "region", impact |-> <<>>],
       [id |-> "label", impact |-> <<"serious">>] >> }

\* lhr.categories.accessibility.score in thousandths; <<>> is "not a number"
LhRawScores == { <<>>, <<0>>, <<895>> }

\* message content of the completion: text that is not JSON, no content at
\* all, or the value the text parses to
NotJson == [t |-> "not json"]
NoContent == [t |-> "no content"]

\* a candidate {"id": id, "title": title}
Candidate(id, title) ==
  Obj(<< [k |-> "id", v |-> id], [k |-> "title", v |-> title] >>)

GenContents ==
  { NotJson,
    Obj(<< [k |-> "items",
            v |-> Arr(<< Candidate(Str("region"), Str("Add landmarks")),
                         Candidate(Str(""), Str("No id")) >>)] >>) }

(***************************************************************************)
(* Pure helpers.                                                           *)
(***************************************************************************)
Max(a, b) == IF a >= b THEN a ELSE b

\* route.ts 192-198 with the comparison of line 193 made strict
gradeFromScoreRouteStrict(score) ==
  IF score > 90 THEN "A"
  ELSE IF score >= 80 THEN "B"
  ELSE IF score >= 70 THEN "C"
  ELSE IF score >= 60 THEN "D"
  ELSE "F"

\* route.ts 192-198
gradeFromScoreRoute(score) ==
  IF score >= 90 THEN "A"
  ELSE IF score >= 80 THEN "B"
  ELSE IF score >= 70 THEN "C"
  ELSE IF score >= 60 THEN "D"
  ELSE "F"

\* part_001 197-203
gradeFromScoreProxy(score) ==
  IF score >= 90 THEN "A"
  ELSE IF score >= 80 THEN "B"
  ELSE IF score >= 70 THEN "C"
  ELSE IF score >= 60 THEN "D"
  ELSE "F"

gradeFromScore(score) ==
  IF score >= 90 THEN "A"
  ELSE IF score >= 80 THEN "B"
  ELSE IF score >= 70 THEN "C"
  ELSE IF score >= 60 THEN "D"
  ELSE "F"

\* Buffer.from(url).toString("base64"): sextets 0..63, 64 is the pad "="
Pad == 64
RECURSIVE Base64(_)
Base64(b) ==
  IF Len(b) = 0 THEN <<>>
  ELSE IF Len(b) = 1 THEN << b[1] \div 4, (b[1] % 4) * 16, Pad, Pad >>
  ELSE IF Len(b) = 2 THEN
    << b[1] \div 4, (b[1] % 4) * 16 + (b[2] \div 16), (b[2] % 16) * 4, Pad >>
  ELSE << b[1] \div 4, (b[1] % 4) * 16 + (b[2] \div 16),
          (b[2] % 16) * 4 + (b[3] \div 64), b[3] % 64 >>
       \o Base64(SubSeq(b, 4, Len(b)))

cacheKey(url) == [prefix |-> "accessibility:", encoded |-> Base64(url)]

\* Math.round(score * 100) of a score given in thousandths (half rounds up)
RoundScore(raw) == (raw + 5) \div 10

\* value runLighthouse resolves with: number | null
LighthouseValue(raw) == IF raw = <<>> THEN <<>> ELSE << RoundScore(raw[1]) >>

getRecommendation(id) ==
  IF id \in StaticIds THEN << [id |-> id, from |-> "static"] >> ELSE <<>>

\* analyzeLocal.ts 54-68: one AccessibilityViolation per raw axe violation
MapViolation(v) ==
  [id |-> v.id,
   impact |-> IF v.impact = <<>> THEN << "moderate" >> ELSE v.impact,
   recommendation |-> getRecommendation(v.id)]

MapViolations(axeViolations) ==
  [i \in DOMAIN axeViolations |-> MapViolation(axeViolations[i])]

\* analyzeLocal.ts 71-79
PendingOf(violations) ==
  LET P == SelectSeq(violations, LAMBDA v : v.recommendation = <<>>)
  IN [i \in DOMAIN P |-> [id |-> P[i].id]]

\* openai.ts 27-31
safe(s, fallback) == IF s.t = "string" THEN s.s ELSE fallback
arr(a, fallback) == IF a.t = "array" THEN a.items ELSE fallback
lang(l) == IF l \in {Str("css"), Str("html"), Str("js")} THEN l.s ELSE "html"
effort(e) ==
  IF e \in {Str("easy"), Str("moderate"), Str("complex")} THEN e.s ELSE "moderate"
priority(p) ==
  IF p \in {Str("high"), Str("medium"), Str("low")} THEN p.s ELSE "medium"

\* r.title: a null element of resources throws
ResourceFieldStrict(r, name) == Get(r, name)

\* openai.ts 47-50: r?.title, r?.url, r?.type
ResourceField(r, name) == OptGet(r, name)

\* openai.ts 49-52
ResourceType(r) ==
  LET t == safe(ResourceField(r, "type"), "guide")
  IN IF t \in {"tool", "guide", "documentation"} THEN t ELSE "guide"

\* openai.ts 25-58: <<>> is null, << Thrown >> an escaping TypeError.  The
\* field `from` marks the origin of a Recommendation of the model.
normalizeRecommendation(raw) ==
  IF ~Truthy(raw) THEN <<>>
  ELSE IF ~Truthy(Get(raw, "id")) THEN <<>>
  ELSE
    LET codeExample == OptGet(raw, "codeExample")
        resources == arr(Get(raw, "resources"), <<>>)
        reads == { Get(raw, n) : n \in {"id", "title", "description", "priority",
                                        "effort", "impact", "steps", "resources"} }
                 \cup { ResourceField(resources[i], n) :
                          i \in DOMAIN resources, n \in {"title", "url", "type"} }
    IN IF Thrown \in reads THEN << Thrown >>
       ELSE
         << [id |-> safe(Get(raw, "id"), ""),
             from |-> "generated",
             title |-> safe(Get(raw, "title"), "General Accessibility Improvement"),
             description |-> safe(Get(raw, "description"),
                                  "Refer to relevant WCAG and fix accordingly."),
             priority |-> priority(Get(raw, "priority")),
             effort |-> effort(Get(raw, "effort")),
             impact |-> safe(Get(raw, "impact"), "Improves overall accessibility"),
             steps |-> arr(Get(raw, "steps"), <<>>),
             codeExample |->
               [before |-> safe(OptGet(codeExample, "before"), ""),
                after |-> safe(OptGet(codeExample, "after"), ""),
                language |-> lang(OptGet(codeExample, "language"))],
             resources |->
               [i \in DOMAIN resources |->
                  [title |-> safe(ResourceField(resources[i], "title"), ""),
                   url |-> safe(ResourceField(resources[i], "url"), ""),
                   type |-> ResourceType(resources[i])]]] >>

\* openai.ts 104-108: the candidate list read from the message content, Thrown
\* when JSON.parse or a property read throws
CandidateList(content) ==
  IF content = NotJson THEN Thrown
  ELSE LET obj == IF content = NoContent THEN Obj(<<>>) ELSE content
       IN IF obj.t = "array" THEN obj
          ELSE LET items == Get(obj, "items")
               IN IF items = Thrown THEN Thrown
                  ELSE IF Nullish(items) THEN ObjectValues(obj)
                  ELSE items

\* a value that is not an array is read as a list of one candidate
ParseGeneratedWrap(content) ==
  LET list == CandidateList(content)
      items == IF list.t = "array" THEN list.items ELSE << list >>
      N == [i \in DOMAIN items |-> normalizeRecommendation(items[i])]
      K == SelectSeq(N, LAMBDA r : r # <<>>)
  IN IF list = Thrown \/ \E i \in DOMAIN N : N[i] = << Thrown >> THEN <<>>
     ELSE [i \in DOMAIN K |-> K[i][1]]

\* openai.ts 101-113: arr.map(normalizeRecommendation).filter(Boolean) inside
\* the try; anything thrown leaves generated = []
ParseGenerated(content) ==
  LET list == CandidateList(content)
  IN IF list.t # "array" THEN <<>>
     ELSE LET N == [i \in DOMAIN list.items |->
                      normalizeRecommendation(list.items[i])]
              K == SelectSeq(N, LAMBDA r : r # <<>>)
          IN IF \E i \in DOMAIN N : N[i] = << Thrown >> THEN <<>>
             ELSE [i \in DOMAIN K |-> K[i][1]]

\* the first violation with the id, with or without a recommendation
FindTargetAny(violations, r) ==
  LET S == {i \in DOMAIN violations : violations[i].id = r.id}
  IN IF S = {} THEN 0 ELSE CHOOSE i \in S : \A j \in S : i <= j

\* violations.find((v) => v.id === r.id && !v.recommendation)
FindTarget(violations, r) ==
  LET S == {i \in DOMAIN violations :
              violations[i].id = r.id /\ violations[i].recommendation = <<>>}
  IN IF S = {} THEN 0 ELSE CHOOSE i \in S : \A j \in S : i <= j

\* openai.ts 118-119: one iteration of the loop, for candidate r
AttachOne(violations, r) ==
  LET t == FindTarget(violations, r)
  IN IF t = 0 THEN violations
     ELSE [violations EXCEPT ![t].recommendation = << r >>]

\* openai.ts 116-120: the attach loop over generated[k..]
RECURSIVE Attach(_, _, _)
Attach(violations, generated, k) ==
  IF k > Len(generated) THEN violations
  ELSE Attach(AttachOne(violations, generated[k]), generated, k + 1)

\* an entry of the Map is never replaced
RecoCacheSetKeepFirst(cache, r) ==
  IF r.id \in DOMAIN cache THEN cache
  ELSE [id \in DOMAIN cache \cup {r.id} |-> IF id = r.id THEN r ELSE cache[id]]

\* openai.ts 117: recoCache.set(r.id, r)
RecoCacheSet(cache, r) ==
  [id \in DOMAIN cache \cup {r.id} |-> IF id = r.id THEN r ELSE cache[id]]

\* openai.ts 72-78: pending.map(...); of a payload entry the model keeps the id
RequestPayload(pending) == [i \in DOMAIN pending |-> [id |-> pending[i].id]]

CountImpact(violations, imp) ==
  Cardinality({i \in DOMAIN violations : violations[i].impact = << imp >>})

\* counts = {critical: 0, ...}; for (const v of violations) counts[v.impact]++
\* An undefined impact touches none of the four counters: counts[undefined]++
\* creates the own property "undefined" holding NaN.
CountsOf(violations) ==
  [critical |-> CountImpact(violations, "critical"),
   serious |-> CountImpact(violations, "serious"),
   moderate |-> CountImpact(violations, "moderate"),
   minor |-> CountImpact(violations, "minor"),
   undefined |-> IF \E i \in DOMAIN violations : violations[i].impact = <<>>
                 THEN << "NaN" >> ELSE <<>>]

\* {total, violations, passes, ...counts}
SummaryOf(nViolations, nPasses, counts) ==
  [total |-> nViolations + nPasses, violations |-> nViolations,
   passes |-> nPasses,
   critical |-> counts.critical, serious |-> counts.serious,
   moderate |-> counts.moderate, minor |-> counts.minor,
   undefined |-> counts.undefined]

\* the penalty is not floored at 0
scoreFromCountsNoFloor(counts) ==
  100 - (counts.critical * 20 + counts.serious * 10
         + counts.moderate * 5 + counts.minor * 2)

\* serious weighs more than critical
scoreFromCountsSeriousFirst(counts) ==
  Max(100 - (counts.critical * 20 + counts.serious * 30
             + counts.moderate * 5 + counts.minor * 2), 0)

\* analyzeLocal.ts 96-105 (Math.round of an integer is that integer)
scoreFromCounts(counts) ==
  LET totalPenalty == counts.critical * 20 + counts.serious * 10
                      + counts.moderate * 5 + counts.minor * 2
  IN Max(100 - totalPenalty, 0)

\* analyzeLocal.ts 107: lhScore || scoreFromCounts(counts); null and 0 are falsy
SelectScore(lhScore, counts) ==
  IF lhScore = <<>> \/ lhScore = <<0>> THEN scoreFromCounts(counts)
  ELSE lhScore[1]

\* analyzeLocal.ts 110-124; oid is the identity of the object built.  Of a
\* violation the model keeps id, impact and recommendation; the texts, the
\* nodes and analyzedAt are left out.
AssembleResult(oid, url, lhScore, violations) ==
  LET counts == CountsOf(violations)
      score == SelectScore(lhScore, counts)
  IN [oid |-> oid, url |-> url, score |-> score,
      grade |-> gradeFromScore(score),
      violations |-> violations, passes |-> <<>>,
      summary |-> [SummaryOf(Len(violations), 0, counts)
                     EXCEPT !.total = Len(violations)],
      testEngine |-> "axe+lighthouse"]

(***************************************************************************)
(* The analyze route (src/unnamed/part_001, src/app/api/analyze/route.ts). *)
(***************************************************************************)
\* part_001 171-188, route.ts 164-178
buildSummary(violations, passes) ==
  SummaryOf(Len(violations), Len(passes), CountsOf(violations))

\* part_001 191-194, route.ts 180-190: the mock's scoring heuristic
mockScoreFromCounts(c) ==
  Max(0, 100 - (c.critical * 30 + c.serious * 20 + c.moderate * 10 + c.minor * 5))

\* part_001 209-271: the mock's fixed violations
MockViolations ==
  << [id |-> "color-contrast", impact |-> << "serious" >>,
      recommendation |-> << [id |-> "color-contrast", from |-> "static"] >>],
     [id |-> "image-alt", impact |-> << "critical" >>,
      recommendation |-> << [id |-> "image-alt", from |-> "static"] >>],
     [id |-> "heading-order", impact |-> << "moderate" >>,
      recommendation |-> << [id |-> "heading-order", from |-> "static"] >>],
     [id |-> "link-name", impact |-> << "serious" >>,
      recommendation |-> << [id |-> "link-name", from |-> "static"] >>] >>

\* part_001 273-276
MockPasses == << [id |-> "document-title"], [id |-> "landmark-one-main"] >>

\* part_001 206-292, route.ts 201-302
analyzeAccessibilityMock(url) ==
  LET summary == buildSummary(MockViolations, MockPasses)
      score == mockScoreFromCounts(summary)
  IN [oid |-> 0, url |-> url, score |-> score, grade |-> gradeFromScore(score),
      violations |-> MockViolations, passes |-> MockPasses,
      summary |-> summary, testEngine |-> "axe-core@4.7 (mock)"]

\* the field nodes of a Backend-B violation: missing, empty or one node;
\* target <<>> is a node without the field
BNodeLists ==
  { <<>>, << <<>> >> }
  \cup { << << n >> >> : n \in { [target |-> <<>>], [target |-> << << "img" >> >>] } }

\* Backend-B violations: severity <<>> is a payload without the field
BViolations ==
  { [rule_id |-> "image-alt", severity |-> s, nodes |-> n] :
      s \in {<<>>} \cup { << i >> : i \in Impacts }, n \in BNodeLists }

BLists == UNION { [1..n -> BViolations] : n \in 0..MaxBViolations }

\* Backend-B payloads: score and violations may be missing
BPayloads ==
  [score : { <<>>, << 0 >>, << 87 >> },
   violations : {<<>>} \cup { << l >> : l \in BLists }]

\* part_001 312-355
mapBResultToAccessibilityResults(b) ==
  LET raw == IF b.violations = <<>> THEN <<>> ELSE b.violations[1]
      nodesOf(v) == IF v.nodes = <<>> THEN <<>> ELSE v.nodes[1]
      violations == [i \in DOMAIN raw |->
                       [id |-> raw[i].rule_id, impact |-> raw[i].severity,
                        nodes |-> [k \in DOMAIN nodesOf(raw[i]) |->
                                     [target |-> nodesOf(raw[i])[k].target]],
                        recommendation |-> <<>>]]
      passes == <<>>
      score == IF b.score = <<>> THEN 0 ELSE b.score[1]
  IN [oid |-> 0, url |-> <<97>>, score |-> score,
      grade |-> gradeFromScore(score),
      violations |-> violations, passes |-> passes,
      summary |-> SummaryOf(Len(violations), Len(passes), CountsOf(violations)),
      testEngine |-> "axe+lighthouse"]

(***************************************************************************)
(* State.                                                                  *)
(***************************************************************************)
VARIABLES
  clock,         \* Date.now()
  pc,            \* per call: idle, queued, running, generating, done, rejected
  callUrl,       \* per call: the url argument
  callNow,       \* per call: the local `now` of a call that is in flight or
                 \* has stored a result (0 otherwise)
  lh,            \* per call: runLighthouse is none, running, ok, failed
  axe,           \* per call: runAxe is none, running, ok, failed
  gen,           \* per call: the completion call is none, calling, ok, failed
  lhScore,       \* per call: the job's local lhScore once Lighthouse resolved
  axeViolations, \* per call: the job's local axeViolations once axe resolved
  result,        \* per call: the value analyzeLocal returned
  queue,         \* p-queue: jobs waiting for a slot, in arrival order
  pendingCount,  \* p-queue: number of jobs holding a slot
  localCache,    \* the audit cache: key -> {data, expires}
  bPayload,      \* analyze route: the payload polled from Backend-B
  routeResult,   \* analyze route: the AccessibilityResults it built
  reco,          \* the recommendation phase of the audit in progress
  scoring,       \* the severity counters of an audit and the score they give
  norm,          \* a call of normalizeRecommendation: argument and outcome
  grading,       \* a score and the grade each gradeFromScore gives it
  post,          \* a POST to the analyze route: request, position, response
  worker,        \* a run of audit_worker.mjs: payload, position, file, exit
  polling,       \* a polling loop on a Backend-B job
  browser,       \* the module-level browser handle and the getBrowser calls
  client,        \* a call of analyzeWebsite: response received, outcome
  engine         \* a run of runAxe or runLighthouse and what it has open

vars == << clock, pc, callUrl, callNow, lh, axe, gen, lhScore, axeViolations,
           result, queue, pendingCount, localCache, bPayload, routeResult,
           reco, scoring, norm, grading, post, worker, polling, browser,
           client, engine >>

routeVars == << bPayload, routeResult >>

\* everything outside the orchestrator
auxVars == << routeVars, reco, scoring, norm, grading, post, worker, polling,
             browser, client, engine >>

InitLocal ==
  /\ clock = 0
  /\ pc = [c \in Calls |-> "idle"]
  /\ callUrl = [c \in Calls |-> <<>>]
  /\ callNow = [c \in Calls |-> 0]
  /\ lh = [c \in Calls |-> "none"]
  /\ axe = [c \in Calls |-> "none"]
  /\ gen = [c \in Calls |-> "none"]
  /\ lhScore = [c \in Calls |-> <<>>]
  /\ axeViolations = [c \in Calls |-> <<>>]
  /\ result = [c \in Calls |-> <<>>]
  /\ queue = <<>>
  /\ pendingCount = 0
  /\ localCache = [k \in {} |-> <<>>]

\* no audit has reached its recommendation phase
InitReco ==
  reco = [pc |-> "idle", audit |-> 0, violations |-> <<>>,
          cache |-> [id \in {} |-> <<>>], request |-> <<>>, content |-> <<>>,
          generated |-> <<>>, k |-> 1, everCached |-> {}]

\* the route has polled and built nothing
InitRoute ==
  /\ bPayload = [score |-> <<>>, violations |-> <<>>]
  /\ routeResult = <<>>

\* the parts followed step by step in RecoSpec, ScoreSpec and NormSpec only:
\* <<>> where they are not followed
InitParts == reco = <<>> /\ scoring = <<>> /\ norm = <<>>

\* the parts that have a specification of their own each
lateVars == << grading, post, worker, polling, browser, client, engine >>

Init ==
  /\ InitLocal /\ InitRoute /\ InitParts
  /\ grading = <<>> /\ post = <<>> /\ worker = <<>> /\ polling = <<>>
  /\ browser = <<>> /\ client = <<>> /\ engine = <<>>

RecoInit ==
  /\ InitLocal /\ InitRoute /\ InitReco
  /\ scoring = <<>> /\ norm = <<>>
  /\ grading = <<>> /\ post = <<>> /\ worker = <<>> /\ polling = <<>>
  /\ browser = <<>> /\ client = <<>> /\ engine = <<>>

(***************************************************************************)
(* The audit cache (a Map) and the p-queue.                                *)
(***************************************************************************)
\* analyzeLocal.ts 42-44: hit && hit.expires > now
CacheHit(cache, key, now) == key \in DOMAIN cache /\ cache[key].expires > now

\* first write wins: an existing entry is kept
CacheSetKeepFirst(cache, key, data, now) ==
  IF key \in DOMAIN cache THEN cache
  ELSE [k \in DOMAIN cache \cup {key} |->
          IF k = key THEN [data |-> data, expires |-> now + CACHE_TTL_MS]
          ELSE cache[k]]

\* analyzeLocal.ts 129: localCache.set(key, { data, expires: now + CACHE_TTL_MS })
CacheSet(cache, key, data, now) ==
  [k \in DOMAIN cache \cup {key} |->
     IF k = key THEN [data |-> data, expires |-> now + CACHE_TTL_MS]
     ELSE cache[k]]

\* the failure is stored like a result
CacheAfterRejectStores(cache, key, now) ==
  [k \in DOMAIN cache \cup {key} |->
     IF k = key THEN [data |-> [oid |-> 0], expires |-> now + CACHE_TTL_MS]
     ELSE cache[k]]

\* analyzeLocal.ts 47 and 129: the await throws, so the set is never reached
CacheAfterReject(cache, key, now) == cache

\* no limit: every job is started at once
CanStartAlways(pend) == TRUE

\* p-queue: a waiting job is started only while fewer than `concurrency` run
CanStart(pend) == pend < Concurrency

\* the job added last is started first
NextToStartLast(q, pend) ==
  IF q # <<>> /\ CanStart(pend) THEN q[Len(q)] ELSE 0

\* p-queue _tryToStartAnother: the job to start, 0 for none
NextToStart(q, pend) == IF q # <<>> /\ CanStart(pend) THEN Head(q) ELSE 0

\* the job body up to its first suspension: both engines are started
Started(f, j, v) == IF j = 0 THEN f ELSE [f EXCEPT ![j] = v]

(***************************************************************************)
(* Actions.                                                                *)
(***************************************************************************)
\* time passes
Tick ==
  /\ clock < MaxClock
  /\ clock' = clock + TickMs
  /\ UNCHANGED << pc, callUrl, callNow, lh, axe, gen, lhScore, axeViolations,
                  result, queue, pendingCount, localCache, auxVars >>

\* analyzeLocal(url), lines 40-47, up to its first suspension.  Calls are
\* numbered in the order in which they are made.
Call(c, url) ==
  /\ pc[c] = "idle"
  /\ \A b \in DOMAIN pc : b < c => pc[b] # "idle"
  /\ callUrl' = [callUrl EXCEPT ![c] = url]
  /\ IF CacheHit(localCache, cacheKey(url), clock)
     THEN /\ pc' = [pc EXCEPT ![c] = "done"]
          /\ callNow' = callNow
          /\ result' = [result EXCEPT ![c] = << localCache[cacheKey(url)].data >>]
          /\ UNCHANGED << lh, axe, queue, pendingCount >>
     ELSE LET q1 == Append(queue, c)
              j == NextToStart(q1, pendingCount)
          IN /\ queue' = IF j = 0 THEN q1 ELSE Tail(q1)
             /\ pendingCount' = IF j = 0 THEN pendingCount ELSE pendingCount + 1
             /\ pc' = Started([pc EXCEPT ![c] = "queued"], j, "running")
             /\ lh' = Started(lh, j, "running")
             /\ axe' = Started(axe, j, "running")
             /\ callNow' = [callNow EXCEPT ![c] = clock]
             /\ UNCHANGED result
  /\ UNCHANGED << clock, gen, lhScore, axeViolations, localCache, auxVars >>

\* the job of call c settles with a rejection: p-queue frees the slot and
\* starts the next waiting job j; analyzeLocal rethrows at line 47
JobReject(c, j) ==
  /\ queue' = IF j = 0 THEN queue ELSE Tail(queue)
  /\ pendingCount' = IF j = 0 THEN pendingCount - 1 ELSE pendingCount
  /\ pc' = Started([pc EXCEPT ![c] = "rejected"], j, "running")
  /\ localCache' = CacheAfterReject(localCache, cacheKey(callUrl[c]), callNow[c])
  /\ callNow' = [callNow EXCEPT ![c] = 0]
  /\ UNCHANGED << result, lhScore, axeViolations >>

\* both engines fulfilled: lines 54-85 up to the completion call
JobProceed(c) ==
  /\ pc' = [pc EXCEPT ![c] = "generating"]
  /\ gen' = [gen EXCEPT ![c] = "calling"]
  /\ UNCHANGED << queue, pendingCount, localCache, result >>

\* runLighthouse settles: ok = FALSE is a throw, raw is the reported score.
\* Promise.all (line 48) rejects on the first rejection and fulfils when both
\* engines have fulfilled; a value arriving after the rejection is dropped.
LighthouseSettle(c, ok, raw) ==
  /\ lh[c] = "running"
  /\ LET rejects == pc[c] = "running" /\ ~ok
         j == IF rejects THEN NextToStart(queue, pendingCount - 1) ELSE 0
     IN /\ lh' = Started([lh EXCEPT ![c] = IF ok THEN "ok" ELSE "failed"],
                         j, "running")
        /\ axe' = Started(axe, j, "running")
        /\ IF pc[c] # "running"
           THEN UNCHANGED << pc, gen, lhScore, axeViolations, result, queue,
                             pendingCount, localCache, callNow >>
           ELSE IF rejects
           THEN JobReject(c, j) /\ UNCHANGED gen
           ELSE /\ lhScore' = [lhScore EXCEPT ![c] = LighthouseValue(raw)]
                /\ UNCHANGED << axeViolations, callNow >>
                /\ IF axe[c] = "ok" THEN JobProceed(c)
                   ELSE UNCHANGED << pc, gen, result, queue, pendingCount,
                                     localCache >>
  /\ UNCHANGED << clock, callUrl, auxVars >>

\* runAxe settles: ok = FALSE is a throw, out is the list of raw violations
AxeSettle(c, ok, out) ==
  /\ axe[c] = "running"
  /\ LET rejects == pc[c] = "running" /\ ~ok
         j == IF rejects THEN NextToStart(queue, pendingCount - 1) ELSE 0
     IN /\ axe' = Started([axe EXCEPT ![c] = IF ok THEN "ok" ELSE "failed"],
                          j, "running")
        /\ lh' = Started(lh, j, "running")
        /\ IF pc[c] # "running"
           THEN UNCHANGED << pc, gen, lhScore, axeViolations, result, queue,
                             pendingCount, localCache, callNow >>
           ELSE IF rejects
           THEN JobReject(c, j) /\ UNCHANGED gen
           ELSE /\ axeViolations' = [axeViolations EXCEPT ![c] = out]
                /\ UNCHANGED << lhScore, callNow >>
                /\ IF lh[c] = "ok" THEN JobProceed(c)
                   ELSE UNCHANGED << pc, gen, result, queue, pendingCount,
                                     localCache >>
  /\ UNCHANGED << clock, callUrl, auxVars >>

\* what the job returns (lines 54-126) when the completion call answered
\* with `content`
JobResult(c, content) ==
  LET violations == MapViolations(axeViolations[c])
      generated == ParseGenerated(content)
  IN AssembleResult(c, callUrl[c], lhScore[c],
                    Attach(violations, generated, 1))

\* openai.chat.completions.create settles (openai.ts 94): ok = FALSE is a
\* rejection, which escapes generateRecommendations and the job; otherwise
\* the job finishes, the slot is freed and analyzeLocal stores and returns
\* the result (lines 129-130)
GenSettle(c, ok, content) ==
  /\ pc[c] = "generating"
  /\ gen' = [gen EXCEPT ![c] = IF ok THEN "ok" ELSE "failed"]
  /\ LET j == NextToStart(queue, pendingCount - 1)
     IN /\ lh' = Started(lh, j, "running")
        /\ axe' = Started(axe, j, "running")
        /\ IF ~ok
           THEN JobReject(c, j)
           ELSE LET data == JobResult(c, content)
                IN /\ queue' = IF j = 0 THEN queue ELSE Tail(queue)
                   /\ pendingCount' = IF j = 0 THEN pendingCount - 1
                                      ELSE pendingCount
                   /\ pc' = Started([pc EXCEPT ![c] = "done"], j, "running")
                   /\ localCache' = CacheSet(localCache, cacheKey(callUrl[c]),
                                             data, callNow[c])
                   /\ result' = [result EXCEPT ![c] = << data >>]
                   /\ UNCHANGED << lhScore, axeViolations, callNow >>
  /\ UNCHANGED << clock, callUrl, auxVars >>

\* the urls call c can be made for.  The two urls differ in name only, so
\* the url of the first call is fixed.
CallUrls(c) == IF c = 1 THEN { <<97>> } ELSE Urls

\* several callers, clean pages
Next ==
  \/ Tick
  \/ \E c \in Calls : \E url \in CallUrls(c) : Call(c, url)
  \/ \E c \in Calls, ok \in BOOLEAN : LighthouseSettle(c, ok, CleanLh)
  \/ \E c \in Calls, ok \in BOOLEAN : AxeSettle(c, ok, CleanAxe)
  \/ \E c \in Calls, ok \in BOOLEAN : GenSettle(c, ok, CleanGen)

Spec == Init /\ [][Next]_vars

\* few callers, pages with violations
AuditNext ==
  \/ Tick
  \/ \E c \in AuditCalls, url \in Urls : Call(c, url)
  \/ \E c \in AuditCalls, ok \in BOOLEAN, raw \in LhRawScores :
       LighthouseSettle(c, ok, raw)
  \/ \E c \in AuditCalls, ok \in BOOLEAN, out \in AxeOutputs :
       AxeSettle(c, ok, out)
  \/ \E c \in AuditCalls, ok \in BOOLEAN, content \in GenContents :
       GenSettle(c, ok, content)

AuditSpec == Init /\ [][AuditNext]_vars

\* as many callers of one page as give the queue several waiting jobs; the
\* clock stands still, so an entry of the cache never expires
QueueInit ==
  /\ clock = 0
  /\ pc = [c \in 1..MaxQueueCalls |-> "idle"]
  /\ callUrl = [c \in 1..MaxQueueCalls |-> <<>>]
  /\ callNow = [c \in 1..MaxQueueCalls |-> 0]
  /\ lh = [c \in 1..MaxQueueCalls |-> "none"]
  /\ axe = [c \in 1..MaxQueueCalls |-> "none"]
  /\ gen = [c \in 1..MaxQueueCalls |-> "none"]
  /\ lhScore = [c \in 1..MaxQueueCalls |-> <<>>]
  /\ axeViolations = [c \in 1..MaxQueueCalls |-> <<>>]
  /\ result = [c \in 1..MaxQueueCalls |-> <<>>]
  /\ queue = <<>>
  /\ pendingCount = 0
  /\ localCache = [k \in {} |-> <<>>]
  /\ InitRoute /\ InitParts
  /\ grading = <<>> /\ post = <<>> /\ worker = <<>> /\ polling = <<>>
  /\ browser = <<>> /\ client = <<>> /\ engine = <<>>

QueueNext ==
  \/ \E c \in 1..MaxQueueCalls : Call(c, <<97>>)
  \/ \E c \in 1..MaxQueueCalls, ok \in BOOLEAN : LighthouseSettle(c, ok, CleanLh)
  \/ \E c \in 1..MaxQueueCalls, ok \in BOOLEAN : AxeSettle(c, ok, CleanAxe)
  \/ \E c \in 1..MaxQueueCalls, ok \in BOOLEAN : GenSettle(c, ok, CleanGen)

QueueSpec == QueueInit /\ [][QueueNext]_vars

(***************************************************************************)
(* The analyze route's result builders, applied to bounded inputs.         *)
(***************************************************************************)
localVars == << clock, pc, callUrl, callNow, lh, axe, gen, lhScore,
                axeViolations, result, queue, pendingCount, localCache >>

RouteInit ==
  /\ InitLocal
  /\ bPayload \in BPayloads
  /\ routeResult = <<>>
  /\ InitParts
  /\ grading = <<>> /\ post = <<>> /\ worker = <<>> /\ polling = <<>>
  /\ browser = <<>> /\ client = <<>> /\ engine = <<>>

\* part_001 407-409: the polled payload is mapped and returned
MapBResult ==
  /\ routeResult' = << mapBResultToAccessibilityResults(bPayload) >>
  /\ UNCHANGED << bPayload, localVars, reco, scoring, norm, lateVars >>

\* part_001 419-420, route.ts 313-314: the mock result is returned
MockAnalyze(url) ==
  /\ routeResult' = << analyzeAccessibilityMock(url) >>
  /\ UNCHANGED << bPayload, localVars, reco, scoring, norm, lateVars >>

RouteNext ==
  \/ MapBResult
  \/ \E url \in Urls : MockAnalyze(url)

RouteSpec == RouteInit /\ [][RouteNext]_vars

(***************************************************************************)
(* The recommendation phase of an audit: analyzeLocal.ts 54-85 and         *)
(* generateRecommendations (openai.ts 63-123), one audit after another.    *)
(***************************************************************************)
mainVars == << clock, pc, callUrl, callNow, lh, axe, gen, lhScore,
               axeViolations, result, queue, pendingCount, localCache,
               bPayload, routeResult >>

\* raw axe violations of the audited pages
RecoAxeOutputs ==
  { <<>>,
    << [id |-> "label", impact |-> <<"serious">>] >>,
    << [id |-> "region", impact |-> <<>>],
       [id |-> "label", impact |-> <<"serious">>] >>,
    << [id |-> "region", impact |-> <<"moderate">>],
       [id |-> "list", impact |-> <<"minor">>],
       [id |-> "region", impact |-> <<"critical">>] >> }

ItemsObject(items) == Obj(<< [k |-> "items", v |-> items] >>)

\* message contents of the completion
RecoContents ==
  { NotJson, NoContent, Null, Num(5), Str("no"),
    ItemsObject(Str("region")),
    ItemsObject(Candidate(Str("region"), Str("F"))),
    ItemsObject(Arr(<< Candidate(Str("region"), Str("A")),
                       Candidate(Str("label"), Str("L")),
                       Candidate(Str("region"), Str("B")),
                       Candidate(Str("region"), Str("C")) >>)),
    Arr(<< Null, Candidate(Num(5), Str("N")),
           Candidate(Str("list"), Str("D")) >>),
    Obj(<< [k |-> "region", v |-> Candidate(Str("region"), Str("E"))] >>) }

\* analyzeLocal.ts 54-85 and openai.ts 69-99: the violations are built, the
\* audit's recoCache is created, generateRecommendations sends its request
StartRecommendations(out) ==
  /\ reco.pc \in {"idle", "returned", "threw"}
  /\ reco.audit < MaxAudits
  /\ LET violations == MapViolations(out)
     IN reco' = [reco EXCEPT
                   !.pc = "awaiting", !.audit = reco.audit + 1,
                   !.violations = violations,
                   !.cache = [id \in {} |-> <<>>],
                   !.request = << RequestPayload(PendingOf(violations)) >>,
                   !.content = <<>>, !.generated = <<>>, !.k = 1]
  /\ UNCHANGED << mainVars, scoring, norm, lateVars >>

\* openai.ts 94-113: the completion call settles; a rejection escapes, an
\* answer is parsed into `generated`
CompletionSettle(ok, content) ==
  /\ reco.pc = "awaiting"
  /\ IF ~ok THEN reco' = [reco EXCEPT !.pc = "threw"]
     ELSE LET generated == ParseGenerated(content)
          IN reco' = [reco EXCEPT
                        !.pc = IF generated = <<>> THEN "returned" ELSE "attaching",
                        !.content = << content >>,
                        !.generated = generated, !.k = 1]
  /\ UNCHANGED << mainVars, scoring, norm, lateVars >>

\* openai.ts 116-122: one iteration of the loop; after the last one the
\* function returns `generated`
AttachStep ==
  /\ reco.pc = "attaching"
  /\ LET r == reco.generated[reco.k]
     IN reco' = [reco EXCEPT
                   !.cache = RecoCacheSet(reco.cache, r),
                   !.violations = AttachOne(reco.violations, r),
                   !.everCached = reco.everCached \cup {r.id},
                   !.k = reco.k + 1,
                   !.pc = IF reco.k = Len(reco.generated) THEN "returned"
                          ELSE "attaching"]
  /\ UNCHANGED << mainVars, scoring, norm, lateVars >>

RecoNext ==
  \/ \E out \in RecoAxeOutputs : StartRecommendations(out)
  \/ \E ok \in BOOLEAN, content \in RecoContents : CompletionSettle(ok, content)
  \/ AttachStep

RecoSpec == RecoInit /\ [][RecoNext]_vars

(***************************************************************************)
(* normalizeRecommendation (openai.ts 25-58) applied to bounded inputs.    *)
(***************************************************************************)
\* the object with the given property values; an Undefined value is a
\* property the object does not have
ObjectOf(pairs) == Obj(SelectSeq(pairs, LAMBDA p : p.v # Undefined))

RawIds ==
  { Undefined, Null, Str(""), Str("region"), Num(0), Num(5), Bool(TRUE),
    Arr(<<>>), Obj(<<>>) }

RawPriorities == { Undefined, Null, Str("high"), Str("urgent"), Num(1) }

RawEfforts == { Undefined, Str("easy"), Bool(FALSE) }

\* title, description, impact and steps: missing, wrong-typed, as expected
RawTexts ==
  { [title |-> Undefined, description |-> Undefined, impact |-> Undefined,
     steps |-> Undefined],
    [title |-> Null, description |-> Num(7), impact |-> Arr(<<>>),
     steps |-> Str("step")],
    [title |-> Str("T"), description |-> Str("D"), impact |-> Str("I"),
     steps |-> Arr(<< Str("do"), Null, Num(1) >>)] }

RawCodeExamples ==
  { Undefined, Null, Str("x"),
    Obj(<< [k |-> "language", v |-> Str("css")],
           [k |-> "before", v |-> Str("a")] >>),
    Obj(<< [k |-> "language", v |-> Str("python")],
           [k |-> "before", v |-> Num(1)], [k |-> "after", v |-> Null] >>) }

RawResources ==
  { Undefined, Null, Str("x"),
    Arr(<< Null, Num(3), Str("s"),
           Obj(<< [k |-> "type", v |-> Str("tool")],
                  [k |-> "url", v |-> Str("u")] >>),
           Obj(<< [k |-> "type", v |-> Str("video")],
                  [k |-> "title", v |-> Null] >>) >>) }

RawObjects ==
  { ObjectOf(<< [k |-> "id", v |-> id],
                [k |-> "title", v |-> tx.title],
                [k |-> "description", v |-> tx.description],
                [k |-> "priority", v |-> pr],
                [k |-> "effort", v |-> ef],
                [k |-> "impact", v |-> tx.impact],
                [k |-> "steps", v |-> tx.steps],
                [k |-> "codeExample", v |-> ce],
                [k |-> "resources", v |-> rs] >>) :
      id \in RawIds, tx \in RawTexts, pr \in RawPriorities, ef \in RawEfforts,
      ce \in RawCodeExamples, rs \in RawResources }

\* the arguments of normalizeRecommendation: the elements of a parsed list
RawInputs ==
  { Null, Num(0), Num(5), Str(""), Str("region"), Bool(FALSE),
    Bool(TRUE), Arr(<<>>), Arr(<< Obj(<< [k |-> "id", v |-> Str("region")] >>) >>) }
  \cup RawObjects

NormInit ==
  /\ InitLocal /\ InitRoute
  /\ grading = <<>> /\ post = <<>> /\ worker = <<>> /\ polling = <<>>
  /\ browser = <<>> /\ client = <<>> /\ engine = <<>>
  /\ reco = <<>> /\ scoring = <<>>
  /\ norm \in [raw : RawInputs, called : {FALSE}, out : {<<>>}]

\* openai.ts 109: normalizeRecommendation is applied to an element
Normalize ==
  /\ ~norm.called
  /\ norm' = [norm EXCEPT !.called = TRUE,
                          !.out = normalizeRecommendation(norm.raw)]
  /\ UNCHANGED << mainVars, reco, scoring, lateVars >>

NormNext == Normalize

NormSpec == NormInit /\ [][NormNext]_vars

(***************************************************************************)
(* Scoring without a Lighthouse score (analyzeLocal.ts 87-108) applied to  *)
(* bounded severity counts.                                                *)
(***************************************************************************)
\* the counters after the loop of line 93
CountRecords ==
  [critical : 0..MaxCount, serious : 0..MaxCount,
   moderate : 0..MaxCount, minor : 0..MaxCount]

ScoreInit ==
  /\ InitLocal /\ InitRoute
  /\ grading = <<>> /\ post = <<>> /\ worker = <<>> /\ polling = <<>>
  /\ browser = <<>> /\ client = <<>> /\ engine = <<>>
  /\ reco = <<>> /\ norm = <<>>
  /\ scoring \in [counts : CountRecords, score : {<<>>}, grade : {<<>>}]

\* analyzeLocal.ts 107-108 with lhScore = null
ScoreAudit ==
  /\ scoring.score = <<>>
  /\ LET score == SelectScore(<<>>, scoring.counts)
     IN scoring' = [scoring EXCEPT !.score = << score >>,
                                   !.grade = << gradeFromScore(score) >>]
  /\ UNCHANGED << mainVars, reco, norm, lateVars >>

ScoreNext == ScoreAudit

ScoreSpec == ScoreInit /\ [][ScoreNext]_vars

(***************************************************************************)
(* The three definitions of gradeFromScore applied to bounded scores.      *)
(***************************************************************************)
GradeInit ==
  /\ InitLocal /\ InitRoute /\ InitParts
  /\ post = <<>> /\ worker = <<>> /\ polling = <<>>
  /\ browser = <<>> /\ client = <<>> /\ engine = <<>>
  /\ grading \in [score : 0..MaxScore, local : {<<>>}, route : {<<>>},
                  proxy : {<<>>}]

\* analyzeLocal.ts 108: the orchestrator grades the score
GradeLocal ==
  /\ grading.local = <<>>
  /\ grading' = [grading EXCEPT !.local = << gradeFromScore(grading.score) >>]
  /\ UNCHANGED << mainVars, reco, scoring, norm,
                 post, worker, polling, browser, client, engine >>

\* route.ts 288: the mock analyzer of the route grades the score
GradeRoute ==
  /\ grading.route = <<>>
  /\ grading' = [grading EXCEPT !.route = << gradeFromScoreRoute(grading.score) >>]
  /\ UNCHANGED << mainVars, reco, scoring, norm,
                 post, worker, polling, browser, client, engine >>

\* part_001 280, 333: the proxy route grades the score
GradeProxy ==
  /\ grading.proxy = <<>>
  /\ grading' = [grading EXCEPT !.proxy = << gradeFromScoreProxy(grading.score) >>]
  /\ UNCHANGED << mainVars, reco, scoring, norm,
                 post, worker, polling, browser, client, engine >>

GradeNext == GradeLocal \/ GradeRoute \/ GradeProxy

GradeSpec == GradeInit /\ [][GradeNext]_vars

(***************************************************************************)
(* POST of the analyze route: route.ts 304-319 (the mock route) and        *)
(* part_001 358-422 (the route that asks Backend-B first).                 *)
(***************************************************************************)
\* new URL(s) succeeds, for the url strings of the request bodies
ParsesAsUrl(s) == s \in { "http://a.test/" }

\* analyzeSchema.safeParse(body) (route.ts 159-161, part_001 19-21): <<>> on
\* success, otherwise the message of the first issue
SchemaIssue(body) ==
  IF body.t # "object" THEN << "Expected object" >>
  ELSE LET u == Prop(body, "url")
       IN IF u.t = "undefined" THEN << "Required" >>
          ELSE IF u.t # "string" THEN << "Expected string" >>
          ELSE IF ~ParsesAsUrl(u.s) THEN << "Please provide a valid URL" >>
          ELSE <<>>

\* NextResponse.json(body, { status })
Response(status, body) == << [status |-> status, body |-> body] >>

\* part_001 410-420 without the test of `force`: the mock always answers
OnBackendFailureAlwaysMock(force) == "mock"

\* part_001 410-420: what the catch block does with a Backend-B failure
OnBackendFailure(force) == IF force THEN "respond502" ELSE "mock"

PostInit ==
  /\ InitLocal /\ InitRoute /\ InitParts
  /\ grading = <<>> /\ worker = <<>> /\ polling = <<>>
  /\ browser = <<>> /\ client = <<>> /\ engine = <<>>
  /\ \E variant \in {"mock", "proxy"}, bUrl \in BOOLEAN, force \in BOOLEAN,
        \* the body: text that is not JSON, or the value the text parses to
        body \in { NotJson, Null, Obj(<<>>) }
                 \cup { Obj(<< [k |-> "url", v |-> u] >>) :
                          u \in { Num(5), Str(""), Str("example"),
                                  Str("/audit"), Str("http://a.test/") } } :
       /\ variant = "mock" => ~bUrl /\ ~force
       /\ post = [variant |-> variant, body |-> body, bUrl |-> bUrl,
                  force |-> force, pc |-> "received", polls |-> 0,
                  work |-> {}, payload |-> <<>>, failure |-> <<>>,
                  response |-> <<>>]

\* the catch block of part_001 410-420 entered with error text `detail`
BackendFailed(p, detail) ==
  IF OnBackendFailure(p.force) = "respond502"
  THEN [p EXCEPT !.pc = "done", !.failure = << detail >>,
                 !.response = Response(502, [error |-> "backend_b_failed",
                                             detail |-> detail])]
  ELSE [p EXCEPT !.pc = "mock", !.failure = << detail >>,
                 !.work = @ \cup {"mock"}]

\* route.ts 305-313: the body is read and validated; a body that is not
\* JSON makes req.json() reject inside the try, whose catch answers 500
PostMock ==
  /\ post.variant = "mock" /\ post.pc = "received"
  /\ post' =
       IF post.body = NotJson
       THEN [post EXCEPT !.pc = "done",
                         !.response = Response(500, [error |-> "Unexpected token"])]
       ELSE LET issue == SchemaIssue(post.body)
            IN IF issue # <<>>
               THEN [post EXCEPT !.pc = "done",
                                 !.response = Response(400, [error |-> issue[1]])]
               ELSE [post EXCEPT !.pc = "mock", !.work = @ \cup {"mock"}]
  /\ UNCHANGED << mainVars, reco, scoring, norm,
                 grading, worker, polling, browser, client, engine >>

\* part_001 359-377: the body is read (req.json().catch(() => ({}))) and
\* validated, then callBackendB runs up to the fetch that creates the job
PostProxy ==
  /\ post.variant = "proxy" /\ post.pc = "received"
  /\ LET body == IF post.body = NotJson THEN Obj(<<>>) ELSE post.body
         issue == SchemaIssue(body)
     IN post' =
          IF issue # <<>>
          THEN [post EXCEPT !.pc = "done",
                            !.response = Response(400, [error |-> issue[1]])]
          ELSE IF ~post.bUrl THEN BackendFailed(post, "BACKEND_B_URL not set")
          ELSE [post EXCEPT !.pc = "create", !.work = @ \cup {"create"}]
  /\ UNCHANGED << mainVars, reco, scoring, norm,
                 grading, worker, polling, browser, client, engine >>

\* part_001 373-390: the create fetch settles: it rejects, or answers with a
\* status that is not OK, or without a job id, or with one; then the first
\* poll is sent
CreateSettle(outcome) ==
  /\ post.pc = "create"
  /\ post' =
       CASE outcome = "reject" -> BackendFailed(post, "fetch failed")
         [] outcome = "notok" -> BackendFailed(post, "create failed")
         [] outcome = "noid" -> BackendFailed(post, "no job_id returned")
         [] outcome = "id" ->
              [post EXCEPT !.pc = "poll", !.polls = 1, !.work = @ \cup {"poll"}]
  /\ UNCHANGED << mainVars, reco, scoring, norm,
                 grading, worker, polling, browser, client, engine >>

\* part_001 390-403 and 407-409: a poll settles.  `late` is the test
\* Date.now() - start > timeoutMs of line 400.
PollSettle(outcome, b, late) ==
  /\ post.pc = "poll"
  /\ outcome = "pending" /\ ~late => post.polls < MaxPolls
  /\ post' =
       CASE outcome = "reject" -> BackendFailed(post, "fetch failed")
         [] outcome = "notok" -> BackendFailed(post, "poll failed")
         [] outcome = "done" ->
              [post EXCEPT !.pc = "done", !.payload = << b >>,
                           !.work = @ \cup {"map"},
                           !.response =
                             Response(200, mapBResultToAccessibilityResults(b))]
         [] outcome = "pending" ->
              IF late THEN BackendFailed(post, "analyze timeout")
              ELSE [post EXCEPT !.polls = @ + 1]
  /\ UNCHANGED << mainVars, reco, scoring, norm,
                 grading, worker, polling, browser, client, engine >>

\* the url the validated body carries
PostUrl(p) == Prop(IF p.body = NotJson THEN Obj(<<>>) ELSE p.body, "url").s

\* route.ts 313-314, part_001 419-420: the mock analyzer resolves
MockSettle ==
  /\ post.pc = "mock"
  /\ post' = [post EXCEPT !.pc = "done",
                          !.response =
                            Response(200, analyzeAccessibilityMock(PostUrl(post)))]
  /\ UNCHANGED << mainVars, reco, scoring, norm,
                 grading, worker, polling, browser, client, engine >>

PostNext ==
  \/ PostMock
  \/ PostProxy
  \/ \E outcome \in {"reject", "notok", "noid", "id"} : CreateSettle(outcome)
  \/ \E outcome \in {"reject", "notok", "done", "pending"}, late \in BOOLEAN,
        \* the payload of a job that is done: score and violations may be missing
        b \in [score : { <<>>, << 0 >>, << 87 >> },
               violations :
                 { <<>>,
                   << << [rule_id |-> "image-alt", severity |-> << "serious" >>,
                          nodes |-> <<>>] >> >> }] :
       PollSettle(outcome, b, late)
  \/ MockSettle

PostSpec == PostInit /\ [][PostNext]_vars

(***************************************************************************)
(* The batch worker src/worker/audit_worker.mjs in its two variants: the   *)
(* one that prints its document (lines 1-52) and the one that writes it to *)
(* the output path (lines 54-122).                                         *)
(***************************************************************************)
\* the awaited operations of the async body, in program order
Phases(variant, hasUrl) ==
  IF variant = "stdout"
  THEN << "launch", "newContext", "newPage", "goto", "axe" >>
       \o (IF hasUrl THEN << "lighthouse" >> ELSE <<>>)
       \o << "close" >>
  ELSE << "launch", "newContext", "newPage", "goto", "wait", "axe" >>
       \o (IF hasUrl THEN << "lhLaunch", "lighthouse", "kill" >> ELSE <<>>)
       \o << "title", "content", "close" >>

\* the operations inside the try of lines 88-102
CaughtPhases(variant) ==
  IF variant = "file" THEN { "lhLaunch", "lighthouse", "kill" } ELSE {}

\* the operation that follows phase ph; "write" after the last one
PhaseAfter(seq, ph) ==
  LET i == CHOOSE k \in DOMAIN seq : seq[k] = ph
  IN IF i = Len(seq) THEN "write" ELSE seq[i + 1]

WorkerInit ==
  /\ InitLocal /\ InitRoute /\ InitParts
  /\ grading = <<>> /\ post = <<>> /\ polling = <<>>
  /\ browser = <<>> /\ client = <<>> /\ engine = <<>>
  /\ \E variant \in {"stdout", "file"}, writable \in BOOLEAN,
        \* the input file: missing or not JSON, or a payload with or without
        \* url and html
        input \in { [readable |-> FALSE, url |-> FALSE, html |-> FALSE] }
                  \cup [readable : {TRUE}, url : BOOLEAN, html : BOOLEAN] :
       /\ variant = "stdout" => writable
       /\ worker = [variant |-> variant, input |-> input,
                    writable |-> writable, pc |-> "start", axe |-> <<>>,
                    lh |-> [kind |-> "empty"], failed |-> {}, file |-> <<>>,
                    stdout |-> <<>>, exit |-> <<>>]

\* the catch of the whole body: lines 49-52 print the error and exit 1;
\* lines 117-121 write the fatal document, ignoring a failure of the write,
\* and exit 0
WorkerCatch(w) ==
  IF w.variant = "stdout"
  THEN [w EXCEPT !.pc = "exited", !.exit = << 1 >>]
  ELSE [w EXCEPT !.pc = "exited", !.exit = << 0 >>,
                 !.file = IF w.writable
                          THEN Append(@, [lighthouse |-> [kind |-> "empty"],
                                          axe |-> [violations |-> <<>>]])
                          ELSE @]

\* lines 46-48 and 112-114: the document is written and the process exits
WorkerWrite(w) ==
  LET out == [lighthouse |-> w.lh, axe |-> w.axe[1]]
  IN IF w.variant = "stdout"
     THEN [w EXCEPT !.pc = "exited", !.exit = << 0 >>,
                    !.stdout = Append(@, out)]
     ELSE IF w.writable
     THEN [w EXCEPT !.pc = "exited", !.exit = << 0 >>, !.file = Append(@, out)]
     ELSE WorkerCatch(w)

\* lines 6-16 and 60-71: the input file is read and parsed at top level,
\* outside every handler, then the async body starts the browser
WorkerStart ==
  /\ worker.pc = "start"
  /\ worker' = IF ~worker.input.readable
               THEN [worker EXCEPT !.pc = "exited", !.exit = << 1 >>]
               ELSE [worker EXCEPT !.pc = "launch"]
  /\ UNCHANGED << mainVars, reco, scoring, norm,
                 grading, post, polling, browser, client, engine >>

\* the awaited operation settles: ok = FALSE is a rejection; violations is
\* what axe reports.  A page can be loaded only if the payload names one.
PhaseSettle(ok, violations) ==
  /\ worker.pc \notin {"start", "exited"}
  /\ LET w == worker
         ph == w.pc
         next == PhaseAfter(Phases(w.variant, w.input.url), ph)
         after == IF ph \in CaughtPhases(w.variant) /\ ~ok
                  THEN "title" ELSE next
         w1 == [w EXCEPT
                  !.pc = after,
                  !.failed = IF ok THEN @ ELSE @ \cup {ph},
                  !.axe = IF ph = "axe" /\ ok
                          THEN << [violations |-> violations] >> ELSE @,
                  !.lh = IF ph \in CaughtPhases(w.variant) /\ ~ok
                         THEN [kind |-> "error"]
                         ELSE IF ph = "lighthouse" THEN [kind |-> "lhr"]
                         ELSE @]
     IN /\ (ph = "goto" /\ ~w.input.url /\ ~w.input.html) => ~ok
        /\ worker' = IF ~ok /\ ph \notin CaughtPhases(w.variant)
                     THEN WorkerCatch([w EXCEPT !.failed = @ \cup {ph}])
                     ELSE IF after = "write" THEN WorkerWrite(w1)
                     ELSE w1
  /\ UNCHANGED << mainVars, reco, scoring, norm,
                 grading, post, polling, browser, client, engine >>

WorkerNext ==
  \/ WorkerStart
  \/ \E ok \in BOOLEAN, violations \in { <<>>, << "image-alt" >> } :
       PhaseSettle(ok, violations)

WorkerSpec == WorkerInit /\ [][WorkerNext]_vars

(***************************************************************************)
(* The polling loops: waitForAuditResult (backendB.ts 23-33) and the loop  *)
(* of callBackendB (part_001 387-403).                                     *)
(***************************************************************************)
\* what a poll is answered with: a status that is not OK, an OK answer whose
\* body is not JSON, or an OK answer with the job as JSON
PollAnswers ==
  { [kind |-> "notok"], [kind |-> "notjson"] }
  \cup { [kind |-> "json", data |-> d] :
           d \in [status : { <<>>, << "running" >>, << "failed" >>, << "done" >> },
                  score : { <<>>, << 0 >>, << 87 >> }] }

\* the job is returned only when it is done and has a score
IsResultBoth(data) == data.status = << "done" >> /\ data.score # <<>>

\* backendB.ts 29, part_001 396-399
IsResult(data) == data.status = << "done" >> \/ data.score # <<>>

\* backendB.ts 24-26, part_001 387-391: start is read and the first poll sent
PollInit ==
  /\ InitLocal /\ InitRoute /\ InitParts
  /\ grading = <<>> /\ post = <<>> /\ worker = <<>>
  /\ browser = <<>> /\ client = <<>> /\ engine = <<>>
  /\ \E variant \in {"lib", "route"} :
       polling = [variant |-> variant, pc |-> "fetch", start |-> 0,
                  polls |-> 1, wake |-> 0, last |-> <<>>, outcome |-> <<>>]

\* time passes while a poll is in flight or the loop sleeps; a timer that is
\* due fires before time moves on
PollTick ==
  /\ clock < PollTimeout + 2 * PollMs
  /\ \/ polling.pc = "fetch"
     \/ polling.pc = "sleep" /\ clock < polling.wake
  /\ clock' = clock + 1
  /\ UNCHANGED << polling, pc, callUrl, callNow, lh, axe, gen, lhScore,
                 axeViolations, result, queue, pendingCount, localCache,
                 routeVars, reco, scoring, norm, grading, post, worker, browser, client, engine >>

\* a poll is answered: backendB.ts 26-32, part_001 391-402.  backendB.ts 28
\* awaits res.json(), which rejects on a body that is not JSON (body <<>>);
\* part_001 392 reads such a body as {}.
PollAnswered(answer) ==
  /\ polling.pc = "fetch"
  /\ LET body == IF answer.kind = "json" THEN << answer.data >>
                 ELSE IF polling.variant = "route"
                 THEN << [status |-> <<>>, score |-> <<>>] >>
                 ELSE <<>>
         p == [polling EXCEPT !.last = << answer >>]
     IN polling' =
          IF answer.kind = "notok"
          THEN [p EXCEPT !.pc = "thrown", !.outcome = << [error |-> "notok"] >>]
          ELSE IF body = <<>>
          THEN [p EXCEPT !.pc = "thrown", !.outcome = << [error |-> "syntax"] >>]
          ELSE IF IsResult(body[1])
          THEN [p EXCEPT !.pc = "returned", !.outcome = << [data |-> body[1]] >>]
          ELSE IF clock - p.start > PollTimeout
          THEN [p EXCEPT !.pc = "thrown", !.outcome = << [error |-> "timeout"] >>]
          ELSE [p EXCEPT !.pc = "sleep", !.wake = clock + PollMs]
  /\ UNCHANGED << mainVars, reco, scoring, norm,
                 grading, post, worker, browser, client, engine >>

\* the timer of backendB.ts 31 / part_001 402 fires and the next poll is sent
PollAgain ==
  /\ polling.pc = "sleep" /\ clock >= polling.wake
  /\ polling' = [polling EXCEPT !.pc = "fetch", !.polls = @ + 1]
  /\ UNCHANGED << mainVars, reco, scoring, norm,
                 grading, post, worker, browser, client, engine >>

PollNext ==
  \/ PollTick
  \/ \E answer \in PollAnswers : PollAnswered(answer)
  \/ PollAgain

\* every fetch is answered, every timer fires and time does not stand still
FairPollSpec ==
  /\ PollInit /\ [][PollNext]_vars
  /\ WF_vars(PollTick)
  /\ WF_vars(\E answer \in PollAnswers : PollAnswered(answer))
  /\ WF_vars(PollAgain)

(***************************************************************************)
(* The shared browser: getBrowser (backendB.ts 37-43) called by the        *)
(* runAxe of concurrent jobs (runAxe.ts 32).                               *)
(***************************************************************************)
\* every launch gives a new browser: browsers are numbered by launch
BrowserInit ==
  /\ InitLocal /\ InitRoute /\ InitParts
  /\ grading = <<>> /\ post = <<>> /\ worker = <<>> /\ polling = <<>>
  /\ client = <<>> /\ engine = <<>>
  /\ browser = [handle |-> <<>>, connected |-> {}, launches |-> 0,
                pc |-> [c \in 1..MaxBrowserCallers |-> "idle"],
                launching |-> [c \in 1..MaxBrowserCallers |-> 0],
                got |-> [c \in 1..MaxBrowserCallers |-> <<>>]]

\* backendB.ts 38-39: getBrowser up to its return or its await
GetBrowser(c) ==
  /\ browser.pc[c] = "idle"
  /\ browser' =
       IF browser.handle # <<>> /\ browser.handle[1] \in browser.connected
       THEN [browser EXCEPT !.pc[c] = "done", !.got[c] = browser.handle]
       ELSE [browser EXCEPT !.pc[c] = "launching",
                            !.launches = @ + 1,
                            !.launching[c] = browser.launches + 1]
  /\ UNCHANGED << mainVars, reco, scoring, norm,
                 grading, post, worker, polling, client, engine >>

\* backendB.ts 39-42: chromium.launch settles; on success the new browser is
\* stored in the handle and returned
BrowserLaunched(c, ok) ==
  /\ browser.pc[c] = "launching"
  /\ browser' =
       IF ok
       THEN [browser EXCEPT !.pc[c] = "done",
                            !.handle = << browser.launching[c] >>,
                            !.connected = @ \cup { browser.launching[c] },
                            !.got[c] = << browser.launching[c] >>]
       ELSE [browser EXCEPT !.pc[c] = "failed"]
  /\ UNCHANGED << mainVars, reco, scoring, norm,
                 grading, post, worker, polling, client, engine >>

\* a browser crashes or is closed: isConnected() turns false
BrowserDisconnects(b) ==
  /\ b \in browser.connected
  /\ browser' = [browser EXCEPT !.connected = @ \ {b}]
  /\ UNCHANGED << mainVars, reco, scoring, norm,
                 grading, post, worker, polling, client, engine >>

BrowserNext ==
  \/ \E c \in 1..MaxBrowserCallers : GetBrowser(c)
  \/ \E c \in 1..MaxBrowserCallers, ok \in BOOLEAN : BrowserLaunched(c, ok)
  \/ \E b \in 1..MaxBrowserCallers : BrowserDisconnects(b)

BrowserSpec == BrowserInit /\ [][BrowserNext]_vars

(***************************************************************************)
(* The client: analyzeWebsite (api.ts 3-28, part_002 3-18) and the catch   *)
(* of the form's handleSubmit (results-dashboard.tsx 266-281).             *)
(***************************************************************************)
\* JSON.parse(raw) for the response bodies: NotJson is a SyntaxError
JsonParse(raw) ==
  CASE raw = "null" -> Null
    [] raw = "{}" -> Obj(<<>>)
    [] raw = "{\"error\":\"\"}" -> Obj(<< [k |-> "error", v |-> Str("")] >>)
    [] raw = "{\"error\":\"Please provide a valid URL\"}" ->
         Obj(<< [k |-> "error", v |-> Str("Please provide a valid URL")] >>)
    [] raw = "{\"score\":87}" -> Obj(<< [k |-> "score", v |-> Num(87)] >>)
    [] OTHER -> NotJson

\* raw.trim() for the response bodies
Trim(raw) == IF raw = " Bad Gateway " THEN "Bad Gateway" ELSE raw

\* `Request failed (${res.status})`
RequestFailed(status) ==
  CASE status = 400 -> "Request failed (400)"
    [] status = 500 -> "Request failed (500)"
    [] status = 502 -> "Request failed (502)"
    [] OTHER -> "Request failed"

Rejected(message) == << [kind |-> "rejected", message |-> message] >>
Resolved(data) == << [kind |-> "resolved", data |-> data] >>

\* api.ts 10-27.  The parse, the destructuring and the throw of line 15 are
\* all inside the try of line 13, whose catch throws the error of line 17
\* instead.
AnalyzeWebsiteLib(status, raw) ==
  IF status # 200
  THEN Rejected(IF Trim(raw) # "" THEN Trim(raw) ELSE RequestFailed(status))
  ELSE IF raw = "" THEN Rejected("Empty response from server")
  ELSE IF JsonParse(raw) = NotJson THEN Rejected("Invalid JSON from server")
  ELSE Resolved(JsonParse(raw))

\* part_002 12-17
AnalyzeWebsitePart(status, raw) ==
  LET parsed == JsonParse(raw)
  IN IF parsed = NotJson THEN Rejected("Unexpected token")
     ELSE IF status = 200 THEN Resolved(parsed)
     ELSE IF Nullish(parsed) THEN Rejected("Cannot read properties of null")
     ELSE IF Truthy(Prop(parsed, "error")) THEN Rejected(Prop(parsed, "error").s)
     ELSE Rejected("Failed to analyze website")

\* the server has answered the POST of analyzeWebsite
ClientInit ==
  /\ InitLocal /\ InitRoute /\ InitParts
  /\ grading = <<>> /\ post = <<>> /\ worker = <<>> /\ polling = <<>>
  /\ browser = <<>> /\ engine = <<>>
  /\ client \in [variant : {"lib", "part"}, status : { 200, 400, 500, 502 },
                 raw : { "", " Bad Gateway ", "null", "{}", "{\"error\":\"\"}",
                         "{\"error\":\"Please provide a valid URL\"}",
                         "{\"score\":87}" },
                 pc : {"fetched"}, outcome : {<<>>}, error : {<<>>},
                 isAnalyzing : {TRUE}]

\* analyzeWebsite reads the response and settles
ClientSettle ==
  /\ client.pc = "fetched"
  /\ client' = [client EXCEPT
                  !.pc = "settled",
                  !.outcome = IF client.variant = "lib"
                              THEN AnalyzeWebsiteLib(client.status, client.raw)
                              ELSE AnalyzeWebsitePart(client.status, client.raw)]
  /\ UNCHANGED << mainVars, reco, scoring, norm,
                 grading, post, worker, polling, browser, engine >>

\* results-dashboard.tsx 273-280: handleSubmit shows the message of a
\* rejection and leaves the analyzing state
HandleSubmit ==
  /\ client.pc = "settled"
  /\ client' = [client EXCEPT
                  !.pc = "shown",
                  !.error = IF client.outcome[1].kind = "rejected"
                            THEN << client.outcome[1].message >> ELSE @,
                  !.isAnalyzing = FALSE]
  /\ UNCHANGED << mainVars, reco, scoring, norm,
                 grading, post, worker, polling, browser, engine >>

ClientNext == ClientSettle \/ HandleSubmit

ClientSpec == ClientInit /\ [][ClientNext]_vars

(***************************************************************************)
(* What the engines open and close: runAxe (runAxe.ts 31-60, part_004      *)
(* 35-64) and runLighthouse (part_005 4-21), one awaited operation a step. *)
(***************************************************************************)
\* the awaited operations in program order
EnginePhases(kind) ==
  IF kind = "axe"
  THEN << "getBrowser", "newContext", "newPage", "goto", "resolveAxePath",
          "readFile", "addScriptTag", "evaluate", "pageClose", "contextClose" >>
  ELSE << "launch", "lighthouse", "kill" >>

\* the operations inside the try block
TryPhases(kind) ==
  IF kind = "axe"
  THEN { "goto", "resolveAxePath", "readFile", "addScriptTag", "evaluate" }
  ELSE { "lighthouse" }

\* the operations of the finally block
FinallyPhases(kind) ==
  IF kind = "axe" THEN { "pageClose", "contextClose" } ELSE { "kill" }

\* the resource an operation creates or closes, "" for none
Resource(ph) ==
  CASE ph \in { "newContext", "contextClose" } -> "context"
    [] ph \in { "newPage", "pageClose" } -> "page"
    [] ph \in { "launch", "kill" } -> "chrome"
    [] OTHER -> ""

\* the two engines of a job run concurrently (analyzeLocal.ts 48-51)
EngineInit ==
  /\ InitLocal /\ InitRoute /\ InitParts
  /\ grading = <<>> /\ post = <<>> /\ worker = <<>> /\ polling = <<>>
  /\ browser = <<>> /\ client = <<>>
  /\ engine = [kind \in { "axe", "lighthouse" } |->
                 [kind |-> kind, pc |-> EnginePhases(kind)[1], created |-> {},
                  open |-> {}, closeCalled |-> {}, closeFailed |-> {},
                  own |-> <<>>, outcome |-> <<>>]]

\* the awaited operation settles: ok = FALSE is a rejection; value is what
\* the last operation of the try block gave (evaluate's result may lack
\* violations, Lighthouse's score may not be a number)
EngineSettle(kind, ok, value) ==
  /\ engine[kind].pc # "settled"
  /\ LET e == engine[kind]
         ph == e.pc
         next == PhaseAfter(EnginePhases(e.kind), ph)
         rejected == << [kind |-> "rejected", at |-> ph] >>
         fulfilled == << [kind |-> "fulfilled", value |-> value] >>
         firstFinally == IF e.kind = "axe" THEN "pageClose" ELSE "kill"
     IN engine' = [engine EXCEPT ![kind] =
          IF ph \in FinallyPhases(e.kind)
          THEN \* the close is called; runAxe ignores its failure (lines 57-58),
               \* runLighthouse lets it replace the outcome (line 19)
               LET e1 == [e EXCEPT
                            !.closeCalled = @ \cup { Resource(ph) },
                            !.open = IF ok THEN @ \ { Resource(ph) } ELSE @,
                            !.closeFailed = IF ok THEN @ ELSE @ \cup { Resource(ph) }]
               IN IF ~ok /\ e.kind = "lighthouse"
                  THEN [e1 EXCEPT !.pc = "settled", !.outcome = rejected]
                  ELSE IF next = "write"
                  THEN [e1 EXCEPT !.pc = "settled", !.outcome = e.own]
                  ELSE [e1 EXCEPT !.pc = next]
          ELSE IF ph \in TryPhases(e.kind)
          THEN \* a rejection, or the return, enters the finally block
               IF ~ok
               THEN [e EXCEPT !.pc = firstFinally, !.own = rejected]
               ELSE IF next \in FinallyPhases(e.kind)
               THEN [e EXCEPT !.pc = next, !.own = fulfilled]
               ELSE [e EXCEPT !.pc = next]
          ELSE \* before the try block: a rejection leaves the function at once
               IF ~ok
               THEN [e EXCEPT !.pc = "settled", !.own = rejected,
                              !.outcome = rejected]
               ELSE [e EXCEPT !.pc = next,
                              !.created = @ \cup ({ Resource(ph) } \ { "" }),
                              !.open = @ \cup ({ Resource(ph) } \ { "" })]]
  /\ UNCHANGED << mainVars, reco, scoring, norm,
                 grading, post, worker, polling, browser, client >>

EngineNext ==
  \E kind \in { "axe", "lighthouse" }, ok \in BOOLEAN,
     value \in { "none", "value" } :
    EngineSettle(kind, ok, value)

EngineSpec == EngineInit /\ [][EngineNext]_vars

(***************************************************************************)
(* Properties.                                                             *)
(***************************************************************************)
\* jobs whose queued body is executing
Executing == {c \in Calls : pc[c] \in {"running", "generating"}}

\* call c ran the pipeline itself and returned the object it built
RanPipeline(c) == pc[c] = "done" /\ result[c] # <<>> /\ result[c][1].oid = c

\* call d starts in this step
Starts(d) == pc[d] = "idle" /\ pc'[d] # "idle"

\* call d, starting in this step, is served from the cache without engine work
ServedFromCache(d) ==
  /\ pc'[d] = "done"
  /\ lh'[d] = "none" /\ axe'[d] = "none" /\ gen'[d] = "none"
  /\ queue' = queue /\ pendingCount' = pendingCount
  /\ cacheKey(callUrl'[d]) \in DOMAIN localCache
  /\ result'[d] = << localCache[cacheKey(callUrl'[d])].data >>

\* C1: if a call for a url has run the pipeline and returned, a second call for
\* the same url that starts less than 10 minutes after the first one started is
\* served the stored object without engine work; a call that starts when the
\* entry has expired runs the pipeline again.
C1_CacheCorrectness ==
  [][\A d \in Calls : Starts(d) =>
       /\ (\E c \in Calls : /\ RanPipeline(c)
                            /\ callUrl[c] = callUrl'[d]
                            /\ clock - callNow[c] < CACHE_TTL_MS)
            => ServedFromCache(d)
       /\ (/\ cacheKey(callUrl'[d]) \in DOMAIN localCache
           /\ localCache[cacheKey(callUrl'[d])].expires <= clock)
            => pc'[d] \in {"queued", "running"}]_vars

\* C2: an audit in which runAxe succeeds and runLighthouse throws or reports no
\* numeric score is not rejected; once it has returned, its score is
\* scoreFromCounts of the severity counts and the result is in the cache.
C2_EngineBNonFatal ==
  \A c \in Calls :
    (axe[c] = "ok" /\ gen[c] # "failed"
       /\ (lh[c] = "failed" \/ (lh[c] = "ok" /\ lhScore[c] = <<>>)))
    => /\ pc[c] # "rejected"
       /\ pc[c] = "done" =>
            /\ result[c] # <<>>
            /\ result[c][1].score
                 = scoreFromCounts(CountsOf(result[c][1].violations))
            /\ cacheKey(callUrl[c]) \in DOMAIN localCache

\* C3: when the completion call rejects, the audit still returns a result, in
\* which no pending violation carries a recommendation.
C3_GenerativeNonFatal ==
  \A c \in Calls :
    gen[c] = "failed" =>
      /\ pc[c] = "done"
      /\ result[c] # <<>>
      /\ result[c][1].violations = MapViolations(axeViolations[c])

\* C4: at most `concurrency` (2) audit jobs execute at the same time, and a
\* waiting job starts only in a step in which an executing job finishes.
C4_BoundedConcurrency ==
  /\ [](Cardinality(Executing) <= Concurrency)
  /\ [][\A d \in Calls : (pc[d] = "queued" /\ pc'[d] = "running") =>
          \E c \in Calls : /\ pc[c] \in {"running", "generating"}
                           /\ pc'[c] \in {"done", "rejected"}]_vars

\* two jobs execute and a third waits for a slot
C4_Witness == Cardinality(Executing) = Concurrency /\ queue # <<>>

\* C5: when runAxe throws, the call is rejected without a result, the step
\* leaves the audit cache as it was, no entry ever holds anything produced by
\* that call, and a later call for a url for which no call has succeeded is
\* not served from the cache but enters the pipeline.
C5_EngineAFatal ==
  /\ [](\A c \in Calls : axe[c] = "failed" =>
          /\ pc[c] = "rejected" /\ result[c] = <<>>
          /\ \A k \in DOMAIN localCache : localCache[k].data.oid # c)
  /\ [][\A c \in Calls : (axe[c] # "failed" /\ axe'[c] = "failed") =>
          localCache' = localCache]_vars
  /\ [][\A d \in Calls :
          (Starts(d) /\ \A c \in Calls : callUrl[c] = callUrl'[d] => pc[c] # "done")
            => pc'[d] \in {"queued", "running"}]_vars

\* runAxe threw in an earlier call, and a later call for the same url ran the
\* pipeline and returned its own result
C5_Witness ==
  \E c, d \in Calls :
    /\ c < d /\ callUrl[c] = callUrl[d]
    /\ axe[c] = "failed" /\ lh[c] # "failed" /\ pc[c] = "rejected"
    /\ RanPipeline(d)

\* C6: the score of a computed result is the Lighthouse score whenever
\* runLighthouse reported one (0 included) and scoreFromCounts otherwise; the
\* grade is gradeFromScore of that score.
C6_ScoreSelection ==
  \A c \in Calls :
    (RanPipeline(c) /\ gen[c] = "ok") =>
      LET r == result[c][1]
      IN /\ r.score = IF lhScore[c] # <<>> THEN lhScore[c][1]
                      ELSE scoreFromCounts(CountsOf(r.violations))
         /\ r.grade = gradeFromScore(r.score)

\* the summary of result r agrees with its lists
SummaryConsistent(r) ==
  /\ r.summary.total = Len(r.violations) + Len(r.passes)
  /\ r.summary.violations = Len(r.violations)
  /\ r.summary.passes = Len(r.passes)
  /\ r.summary.critical = CountImpact(r.violations, "critical")
  /\ r.summary.serious = CountImpact(r.violations, "serious")
  /\ r.summary.moderate = CountImpact(r.violations, "moderate")
  /\ r.summary.minor = CountImpact(r.violations, "minor")
  /\ r.summary.critical + r.summary.serious + r.summary.moderate
       + r.summary.minor = Len(r.violations)

\* C7: every result built by analyzeLocal, by the mock analyzer and by
\* mapBResultToAccessibilityResults has a summary that agrees with its
\* violation and pass lists, the four severity counters adding up to the
\* number of violations.
C7_SummaryConsistency ==
  /\ \A c \in Calls : result[c] # <<>> => SummaryConsistent(result[c][1])
  /\ routeResult # <<>> => SummaryConsistent(routeResult[1])

\* C8: a job has both engines started while it runs, and has neither
\* completed nor failed while one of its engines is still running.
C8_EngineJoin ==
  \A c \in Calls :
    /\ pc[c] = "running" => (lh[c] # "none" /\ axe[c] # "none")
    /\ pc[c] \in {"done", "rejected"} => (lh[c] # "running" /\ axe[c] # "running")

\* C9: a call that misses the cache enters the queue even while other calls
\* for the same url are in flight; a call that finishes its job ran both
\* engines itself, returns the object it built, and leaves that object as the
\* entry of its url; the cache holds at most one entry per url.
C9_NoSingleFlight ==
  /\ [][\A d \in Calls :
          (Starts(d) /\ ~CacheHit(localCache, cacheKey(callUrl'[d]), clock))
            => pc'[d] \in {"queued", "running"}]_vars
  /\ [][\A c \in Calls : (pc[c] = "generating" /\ pc'[c] = "done") =>
          /\ lh[c] = "ok" /\ axe[c] = "ok"
          /\ result'[c] # <<>> /\ result'[c][1].oid = c
          /\ localCache'[cacheKey(callUrl[c])].data = result'[c][1]]_vars
  /\ [](\A u \in Urls :
          Cardinality({k \in DOMAIN localCache : localCache[k].data.url = u}) <= 1)

\* two calls for one url both ran the pipeline; the entry is the result of
\* the one that finished last, here the one that was made first
C9_Witness ==
  \E c, d \in Calls :
    /\ c < d /\ callUrl[c] = callUrl[d]
    /\ RanPipeline(c) /\ RanPipeline(d)
    /\ localCache[cacheKey(callUrl[c])].data.oid = c

\* C10: when a call stores its result, the entry expires 10 minutes after the
\* time of the store.
C10_ExpiryFromStore ==
  [][\A c \in Calls : (pc[c] = "generating" /\ pc'[c] = "done") =>
       localCache'[cacheKey(callUrl[c])].expires = clock + CACHE_TTL_MS]_vars

\* every violation of the audit in its recommendation phase has a rule id of
\* the static table
AllStatic == \A i \in DOMAIN reco.violations : reco.violations[i].id \in StaticIds

\* C11: an audit with at least one violation, all of whose violations have
\* rule ids of the static table, sends no request to the completion service,
\* and each of its violations carries the static table's recommendation.
C11_KnownRuleIds ==
  (reco.pc # "idle" /\ reco.violations # <<>> /\ AllStatic) =>
    /\ reco.request = <<>>
    /\ \A i \in DOMAIN reco.violations :
         reco.violations[i].recommendation
           = getRecommendation(reco.violations[i].id)

\* an audit enters its recommendation phase in this step
AuditStarts == reco'.audit # reco.audit

\* C12: when an audit enters its recommendation phase, its request names no
\* rule id for which a recommendation was generated and written to the
\* recommendation cache earlier in the process, and the cache still holds
\* every entry written by earlier audits.
C12_RecommendationCache ==
  [][AuditStarts =>
       /\ \A id \in DOMAIN reco.cache :
            id \in DOMAIN reco'.cache /\ reco'.cache[id] = reco.cache[id]
       /\ reco'.request # <<>> =>
            \A i \in DOMAIN reco'.request[1] :
              reco'.request[1][i].id \notin reco.everCached]_vars

\* C13: the request sent to the completion service names each pending rule id
\* at most once.
C13_BatchDeduplication ==
  reco.request # <<>> =>
    \A i, j \in DOMAIN reco.request[1] :
      reco.request[1][i].id = reco.request[1][j].id => i = j

\* positions, in response order, of the generated candidates with rule id `id`
CandidatesFor(id) == {k \in DOMAIN reco.generated : reco.generated[k].id = id}

\* the n-th candidate with rule id `id`
NthCandidate(id, n) ==
  reco.generated[CHOOSE k \in CandidatesFor(id) :
                   Cardinality({m \in CandidatesFor(id) : m < k}) = n - 1]

\* the last candidate with rule id `id`
LastCandidate(id) ==
  reco.generated[CHOOSE k \in CandidatesFor(id) :
                   \A m \in CandidatesFor(id) : m <= k]

\* the number of violations up to position i that have the rule id of
\* violation i
RankOf(i) ==
  Cardinality({j \in 1..i : reco.violations[j].id = reco.violations[i].id})

\* C14: in every iteration of the loop the candidate at hand is written to
\* the cache under its id and at most one violation changes; when
\* generateRecommendations has returned, the n-th violation with a pending
\* rule id carries the n-th candidate with that id, or nothing when there are
\* fewer candidates, and the cache holds, for exactly the ids of the
\* candidates, the last candidate of each id, attached or not.
C14_AttachmentRule ==
  /\ [][(reco.pc = "attaching" /\ reco'.audit = reco.audit) =>
          LET r == reco.generated[reco.k]
          IN /\ r.id \in DOMAIN reco'.cache /\ reco'.cache[r.id] = r
             /\ Cardinality({i \in DOMAIN reco.violations :
                               reco'.violations[i] # reco.violations[i]}) <= 1]_vars
  /\ [](reco.pc = "returned" =>
          /\ \A i \in DOMAIN reco.violations :
               LET v == reco.violations[i]
               IN v.recommendation =
                    IF v.id \in StaticIds THEN getRecommendation(v.id)
                    ELSE IF RankOf(i) <= Cardinality(CandidatesFor(v.id))
                    THEN << NthCandidate(v.id, RankOf(i)) >>
                    ELSE <<>>
          /\ DOMAIN reco.cache
               = {reco.generated[k].id : k \in DOMAIN reco.generated}
          /\ \A id \in DOMAIN reco.cache : reco.cache[id] = LastCandidate(id))

\* two violations with one rule id carry the first and the second candidate
\* of that id; a third candidate of the id is in the cache and attached to
\* no violation
C14_Witness ==
  /\ reco.pc = "returned"
  /\ \E i, j \in DOMAIN reco.violations :
       /\ i < j /\ reco.violations[i].id = reco.violations[j].id
       /\ reco.violations[i].recommendation # <<>>
       /\ reco.violations[j].recommendation # <<>>
       /\ reco.violations[i].recommendation # reco.violations[j].recommendation
  /\ \E id \in DOMAIN reco.cache :
       \A i \in DOMAIN reco.violations :
         reco.violations[i].recommendation # << reco.cache[id] >>

\* C15: within an audit, from the construction of its violations on, no step
\* changes the recommendation of a violation that carries one, and no step
\* changes the number of violations or the id or impact of a violation.
C15_WriteOnce ==
  [][(reco.pc # "idle" /\ reco'.audit = reco.audit) =>
       /\ DOMAIN reco'.violations = DOMAIN reco.violations
       /\ \A i \in DOMAIN reco.violations :
            /\ reco'.violations[i].id = reco.violations[i].id
            /\ reco'.violations[i].impact = reco.violations[i].impact
            /\ reco.violations[i].recommendation # <<>> =>
                 reco'.violations[i].recommendation
                   = reco.violations[i].recommendation]_vars

\* the loop has processed a candidate whose id is the id of a violation that
\* already carried another recommendation, static or generated
C15_Witness ==
  /\ reco.pc = "returned"
  /\ \E i \in DOMAIN reco.violations, k \in DOMAIN reco.generated :
       /\ reco.generated[k].id = reco.violations[i].id
       /\ reco.violations[i].recommendation = getRecommendation("label")
  /\ \E i \in DOMAIN reco.violations, k, m \in DOMAIN reco.generated :
       /\ k < m
       /\ reco.generated[m].id = reco.violations[i].id
       /\ reco.violations[i].recommendation = << reco.generated[k] >>

\* r is a Recommendation whose enumerated fields hold allowed values, whose
\* texts are strings and whose lists are arrays
WellFormedRecommendation(r) ==
  /\ r.priority \in {"high", "medium", "low"}
  /\ r.effort \in {"easy", "moderate", "complex"}
  /\ r.codeExample.language \in {"css", "html", "js"}
  /\ r.codeExample.before \in STRING /\ r.codeExample.after \in STRING
  /\ r.title \in STRING /\ r.description \in STRING /\ r.impact \in STRING
  /\ DOMAIN r.steps = 1..Len(r.steps)
  /\ DOMAIN r.resources = 1..Len(r.resources)
  /\ \A i \in DOMAIN r.resources :
       /\ r.resources[i].type \in {"documentation", "tool", "guide"}
       /\ r.resources[i].title \in STRING /\ r.resources[i].url \in STRING

\* raw is an object with a truthy id
HasTruthyId(raw) ==
  /\ raw.t = "object"
  /\ \E i \in DOMAIN raw.props : raw.props[i].k = "id" /\ Truthy(raw.props[i].v)

\* C16 (as claimed): for every input normalizeRecommendation returns, without
\* throwing, a Recommendation whose enumerated fields hold allowed values,
\* whose texts are strings and whose lists are arrays.
C16_AlwaysRecommendation ==
  norm.called =>
    /\ norm.out # << Thrown >>
    /\ norm.out # <<>>
    /\ WellFormedRecommendation(norm.out[1])

\* C16 (amended): for every input normalizeRecommendation does not throw; it
\* returns null exactly when the input is not an object with a truthy id,
\* and otherwise a Recommendation whose enumerated fields hold allowed
\* values, whose texts are strings and whose lists are arrays.
C16_NormalizationTotality ==
  norm.called =>
    /\ norm.out # << Thrown >>
    /\ norm.out = <<>> <=> ~HasTruthyId(norm.raw)
    /\ norm.out # <<>> => WellFormedRecommendation(norm.out[1])

\* a candidate with an id, wrong-typed fields and a resources array that
\* holds null and non-object elements has been normalized
C16_Witness ==
  /\ norm.called /\ norm.out # <<>>
  /\ Prop(norm.raw, "priority") = Num(1)
  /\ Prop(norm.raw, "codeExample") = Str("x")
  /\ Prop(norm.raw, "title") = Null
  /\ Prop(norm.raw, "resources").t = "array"
  /\ Len(norm.out[1].resources) = 5
  /\ norm.out[1].priority = "medium"

\* C17: every Recommendation that generateRecommendations returns, writes to
\* the cache or attaches to a violation has a non-empty id.
C17_NonEmptyId ==
  /\ \A k \in DOMAIN reco.generated : reco.generated[k].id # ""
  /\ "" \notin DOMAIN reco.cache
  /\ \A i \in DOMAIN reco.violations :
       reco.violations[i].recommendation # <<>> =>
         reco.violations[i].recommendation[1].id # ""

\* the content is JSON that holds an array under the property items
HasItemsList(content) == content.t = "object" /\ Prop(content, "items").t = "array"

\* the content is not JSON, or is JSON that is neither an array nor an object
\* with a list under items
Malformed(content) ==
  \/ content = NotJson
  \/ content.t # "array" /\ ~HasItemsList(content)

\* the content is an object without items (missing or null) one of whose
\* property values is an object with a truthy id
HasCandidateValue(content) ==
  /\ content.t = "object" /\ Nullish(Prop(content, "items"))
  /\ \E i \in DOMAIN content.props : HasTruthyId(content.props[i].v)

\* generateRecommendations returned the empty list, changed no violation and
\* wrote nothing to the cache
DegradedToEmpty ==
  /\ reco.pc = "returned"
  /\ reco.generated = <<>>
  /\ DOMAIN reco.cache = {}
  /\ \A i \in DOMAIN reco.violations :
       reco.violations[i].recommendation
         = getRecommendation(reco.violations[i].id)

C19_FallbackScore ==
  scoring.score # <<>> =>
    LET c == scoring.counts
        penalty == 20 * c.critical + 10 * c.serious + 5 * c.moderate + 2 * c.minor
    IN /\ scoring.score[1] = IF penalty >= 100 THEN 0 ELSE 100 - penalty
       /\ scoring.score[1] \in 0..100
       /\ (c.critical = 1 /\ c.serious = 0 /\ c.moderate = 0 /\ c.minor = 0) =>
            (scoring.score = << 80 >> /\ scoring.grade = << "B" >>)

\* one critical violation has been scored
C19_Witness ==
  /\ scoring.counts = [critical |-> 1, serious |-> 0, moderate |-> 0, minor |-> 0]
  /\ scoring.score = << 80 >>

\* the counts with one more violation of severity imp
OneMore(counts, imp) == [counts EXCEPT ![imp] = counts[imp] + 1]

\* C20: one more violation of any severity never gives a higher score than
\* the audit's, and one more violation of a higher severity never gives a
\* higher score than one more of a lower severity.
C20_ScoreMonotone ==
  scoring.score # <<>> =>
    LET c == scoring.counts
    IN /\ \A imp \in Impacts : scoreFromCounts(OneMore(c, imp)) <= scoring.score[1]
       /\ scoreFromCounts(OneMore(c, "critical"))
            <= scoreFromCounts(OneMore(c, "serious"))
       /\ scoreFromCounts(OneMore(c, "serious"))
            <= scoreFromCounts(OneMore(c, "moderate"))
       /\ scoreFromCounts(OneMore(c, "moderate"))
            <= scoreFromCounts(OneMore(c, "minor"))

\* an audit with one violation of each severity has been scored: one more
\* violation lowers its score, the more the higher the severity
C20_Witness ==
  /\ scoring.counts = [critical |-> 1, serious |-> 1, moderate |-> 1, minor |-> 1]
  /\ scoring.score = << 63 >>
  /\ scoreFromCounts(OneMore(scoring.counts, "critical")) = 43
  /\ scoreFromCounts(OneMore(scoring.counts, "minor")) = 61

\* the grade the bands of the scale give a score
BandGrade(score) ==
  CASE score >= 90 -> "A"
    [] score >= 80 /\ score <= 89 -> "B"
    [] score >= 70 /\ score <= 79 -> "C"
    [] score >= 60 /\ score <= 69 -> "D"
    [] score < 60 -> "F"

\* C21: each of the three definitions of gradeFromScore returns, for every
\* score of the range, the grade of the score's band (A from 90, B for 80..89,
\* C for 70..79, D for 60..69, F below 60), so the three agree.
C21_GradeMapping ==
  \A g \in { grading.local, grading.route, grading.proxy } :
    g # <<>> => g[1] = BandGrade(grading.score)

\* the score 89, just under a boundary, has been graded B by all three
C21_Witness ==
  /\ grading.score = 89
  /\ grading.local = << "B" >> /\ grading.route = << "B" >>
  /\ grading.proxy = << "B" >>

\* the job of call j is given a slot in this step
JobStarts(j) == pc[j] \in {"idle", "queued"} /\ pc'[j] = "running"

\* C22: the waiting jobs stand in the queue in the order of their calls, and
\* a job is never started in a step that leaves a job of an earlier call
\* waiting for a slot.
C22_FifoAdmission ==
  /\ [](\A i, k \in 1..Len(queue) : i < k => queue[i] < queue[k])
  /\ [][\A j \in DOMAIN pc : JobStarts(j) =>
          \A b \in DOMAIN pc : b < j => pc'[b] # "queued"]_vars

\* two jobs waited for a slot and the earlier one has been started while
\* the later one still waits
C22_Witness ==
  /\ pc[3] = "running"
  /\ pc[4] = "queued" /\ queue = << 4 >>
  /\ pendingCount = Concurrency

\* the request body is rejected by the input validation of the route: it is
\* not parseable JSON, or has no url, or a url that is not an absolute URL
InvalidBody(body) ==
  \/ body = NotJson
  \/ body.t # "object"
  \/ LET u == Prop(body, "url")
     IN u.t # "string" \/ ~ParsesAsUrl(u.s)

\* C23: a POST whose body is not parseable JSON, has no url or has a url
\* that is not a well-formed absolute URL is answered with status 400 and a
\* body {error: message}, and no analysis work is performed for it.
C23_InputValidation ==
  (InvalidBody(post.body) /\ post.response # <<>>) =>
    /\ post.response[1].status = 400
    /\ post.response[1].body.error \in STRING
    /\ post.work = {}

\* the request is one of the proxy route with a valid url
ValidProxyRequest == post.variant = "proxy" /\ ~InvalidBody(post.body)

WorkerDocument(d) ==
  /\ d.lighthouse.kind \in {"empty", "lhr", "error"}
  /\ d.axe.violations \in Seq(STRING)

\* C24: a worker invoked with an input file and an output path that has
\* exited has exited with code 0 and has written exactly one document, with a
\* lighthouse object and an axe object holding a violations list, to the
\* output file; when nothing but Lighthouse failed, the document records the
\* failure in its lighthouse object and carries the violations axe reported.
C24_WorkerExitContract ==
  worker.exit # <<>> =>
    /\ worker.exit = << 0 >>
    /\ Len(worker.file) = 1
    /\ WorkerDocument(worker.file[1])
    /\ (worker.failed # {} /\ worker.failed \subseteq {"lhLaunch", "lighthouse", "kill"}) =>
         /\ worker.file[1].lighthouse.kind = "error"
         /\ worker.file[1].axe = worker.axe[1]

\* C26: the result mapBResultToAccessibilityResults builds from a Backend-B
\* payload has a numeric score (0 when the payload has none), the grade of
\* that score, an impact among the four severities on every violation, a
\* target list on every node, no passes, and numeric summary counters that
\* agree with the violation list.
C26_WellFormedMapped ==
  (routeResult # <<>> /\ routeResult[1].testEngine = "axe+lighthouse") =>
    LET r == routeResult[1]
    IN /\ r.score = (IF bPayload.score = <<>> THEN 0 ELSE bPayload.score[1])
       /\ r.grade = gradeFromScoreProxy(r.score)
       /\ \A i \in DOMAIN r.violations :
            /\ r.violations[i].impact \in { << imp >> : imp \in Impacts }
            /\ \A k \in DOMAIN r.violations[i].nodes :
                 r.violations[i].nodes[k].target # <<>>
       /\ r.passes = <<>>
       /\ SummaryConsistent(r)

\* the loop has ended
PollEnded == polling.pc \in {"returned", "thrown"}

\* the answer is an OK answer with a job that is done or has a score
FinishedAnswer(answer) ==
  /\ answer.kind = "json"
  /\ (answer.data.status = << "done" >> \/ answer.data.score # <<>>)

\* the loop has ended in one of `errors` or has returned the job of the last
\* answer, which is done or has a score
PollExits(errors) ==
  /\ polling.pc = "returned" =>
       /\ FinishedAnswer(polling.last[1])
       /\ polling.outcome = << [data |-> polling.last[1].data] >>
  /\ polling.pc = "thrown" => polling.outcome[1].error \in errors

\* what the loop does with the answer to a poll
PollStepRule ==
  (polling.pc = "fetch" /\ polling'.pc # "fetch") =>
    LET answer == polling'.last[1]
        late == clock - polling.start > PollTimeout
    IN /\ FinishedAnswer(answer) => polling'.pc = "returned"
       /\ answer.kind = "notok" =>
            polling'.outcome = << [error |-> "notok"] >>
       /\ (answer.kind = "json" /\ ~FinishedAnswer(answer)) =>
            IF late THEN polling'.outcome = << [error |-> "timeout"] >>
            ELSE polling'.pc = "sleep"
       /\ polling'.outcome = << [error |-> "timeout"] >> => late

\* what the loop of callBackendB does with an OK answer that is not JSON
PollBodyRule ==
  (polling.variant = "route" /\ polling.pc = "fetch"
     /\ polling'.pc # "fetch" /\ polling'.last[1].kind = "notjson") =>
    IF clock - polling.start > PollTimeout
    THEN polling'.outcome = << [error |-> "timeout"] >>
    ELSE polling'.pc = "sleep"

\* C27 as claimed: the loop always ends, by returning the first job that is
\* done or has a score, by throwing on the first answer that is not OK, or
\* by throwing the timeout error at the first other answer that arrives
\* more than the timeout after the start; nothing is polled after that.
C27_PollingTerminates ==
  /\ <>PollEnded
  /\ [](PollExits({"notok", "timeout"}))
  /\ [][PollStepRule]_vars
  /\ [][PollEnded => polling' = polling]_vars

\* C27: the loop always ends, by returning the first job that is done or has
\* a score, by throwing on the first answer that is not OK, by throwing on an
\* OK answer whose body is not JSON (waitForAuditResult only; callBackendB
\* reads it as a job that is not done), or by throwing the timeout error at
\* the first other answer that arrives more than the timeout after the
\* start; nothing is polled after that.
C27_PollingTerminatesOrRejectsBody ==
  /\ <>PollEnded
  /\ [](PollExits({"notok", "timeout", "syntax"}))
  /\ [](polling.pc = "thrown" /\ polling.outcome[1].error = "syntax" =>
          polling.variant = "lib" /\ polling.last[1].kind = "notjson")
  /\ [][PollStepRule]_vars
  /\ [][PollBodyRule]_vars
  /\ [][PollEnded => polling' = polling]_vars

\* a job that stayed failed without a score was polled more than once and
\* the loop has ended in the timeout error
C27_Witness ==
  /\ polling.pc = "thrown" /\ polling.outcome = << [error |-> "timeout"] >>
  /\ polling.polls > 1
  /\ polling.last = << [kind |-> "json",
                        data |-> [status |-> << "failed" >>, score |-> <<>>]] >>

\* C28: no two calls of getBrowser are launching a browser at the same time,
\* at most one launched browser is connected, and every caller that holds a
\* connected browser holds the one stored in the module-level handle.
C28_SingleSharedBrowser ==
  /\ Cardinality({ c \in 1..MaxBrowserCallers : browser.pc[c] = "launching" }) <= 1
  /\ Cardinality(browser.connected) <= 1
  /\ \A c \in 1..MaxBrowserCallers :
       (browser.pc[c] = "done" /\ browser.got[c][1] \in browser.connected) =>
         browser.got[c] = browser.handle

\* C29: when the server has answered with a status that is not OK,
\* analyzeWebsite rejects with the message msg of a JSON body {error: msg}
\* with non-empty msg, with the trimmed text of a body that is not JSON, and
\* with "Request failed (<status>)" when the body is empty; the form shows
\* that message.
C29_ClientErrorPropagation ==
  (client.status # 200 /\ client.outcome # <<>>) =>
    LET parsed == JsonParse(client.raw)
        o == client.outcome[1]
    IN /\ o.kind = "rejected"
       /\ (parsed # NotJson /\ Truthy(OptGet(parsed, "error"))) =>
            o.message = Prop(parsed, "error").s
       /\ (parsed = NotJson /\ client.raw # "") => o.message = Trim(client.raw)
       /\ client.raw = "" => o.message = RequestFailed(client.status)
       /\ client.pc = "shown" => client.error = << o.message >>

\* C30: when runAxe or runLighthouse has settled, the close (kill) of every
\* context, page and Chrome instance it created has been called, and runAxe
\* has settled with the audit's own outcome whether or not a close failed.
C30_EngineCleanup ==
  \A kind \in { "axe", "lighthouse" } :
    engine[kind].pc = "settled" =>
      /\ engine[kind].created \subseteq engine[kind].closeCalled
      /\ kind = "axe" => engine[kind].outcome = engine[kind].own

====
